---- MODULE Spec2Model ----
(***************************************************************************)
(* PayU payment provider for MedusaJS: payment-session lifecycle           *)
(* (PayuPaymentProviderService), gateway client (PayuClient) and webhook   *)
(* classification (getWebhookActionAndData).                               *)
(*                                                                         *)
(* JavaScript strings are TLA+ strings.  `undefined` is the reserved value *)
(* Undef; a truthy value that is not a string (an object or a number in a  *)
(* JSON body) is the reserved value NonStr.  SHA-512 is idealised as an    *)
(* injective function of its input string: the lowercase hex digest of s   *)
(* is "sha512(" \o s \o ")", the same digest written in upper case is      *)
(* "SHA512(" \o s \o ")".  Amounts are integers in hundredths.             *)
(***************************************************************************)
EXTENDS Integers, Sequences, FiniteSets, TLC

VARIABLES
    config,    \* the provider's configuration (this.config_)
    env,       \* process.env: STOREFRONT_URL and the two redirect paths
    now,       \* the reading of Date.now()
    stored,    \* TRUE once the platform holds a payment session
    session,   \* the session data the platform holds
    last,      \* the last provider call: operation, outcome, gateway requests
    webhook,   \* the last webhook payload handed to getWebhookActionAndData
    result,    \* what getWebhookActionAndData returned for it
    captured,  \* TRUE once the session has had status `captured`
    hashed,    \* the last use of the PayuClient hash functions
    fetching,  \* the position of the gateway call inside fetchWithTimeout
    step,      \* what verifyPaymentStep returned last
    issued,    \* the txnids generateTxnId has produced, in order
    sessionB,  \* a second session the platform holds
    calls      \* the provider calls in progress, each with the data it was given

vars == <<config, env, now, stored, session, last, webhook, result, captured, hashed,
          fetching, step, issued, sessionB, calls>>

-----------------------------------------------------------------------------
(* Bounds *)

\* The largest reading of Date.now() the model reaches
MaxClock == 2

\* The number of gateway calls followed step by step
MaxCalls == 2

\* The number of sessions the platform creates one after another
MaxSessions == 2

-----------------------------------------------------------------------------
(* JavaScript values *)

Undef == "<undefined>"
NonStr == "<object>"

\* JavaScript truthiness of a string-or-undefined value
Truthy(v) == v # Undef /\ v # ""

\* a || b
Or(a, b) == IF Truthy(a) THEN a ELSE b

\* `${v}` inside a template literal
Str(v) == IF v = Undef THEN "undefined" ELSE IF v = NonStr THEN "[object Object]" ELSE v

\* String.prototype.includes
Includes(s, sub) ==
    \E i \in 1..(Len(s) - Len(sub) + 1) : SubSeq(s, i, i + Len(sub) - 1) = sub

\* s starts with prefix p
StartsWith(s, p) == Len(s) >= Len(p) /\ SubSeq(s, 1, Len(p)) = p

\* Mixed-case texts that occur in gateway data, with their lower-case form
CaseTable ==
    [w \in {"SUCCESS", "Success", "FAILURE", "Failed", "REFUND", "Refunded",
            "DISPUTE", "Chargeback", "Refund Request Queued", "Try after some time",
            "Token Already Used", "Transaction not exists", "Invalid Amount",
            "Refund FAILURE", "TRY AFTER SOME TIME",
            "Amount locked, Try After Some Time", "Token Already Used for this Amount",
            "Transaction Not Exists for Amount", "Bank Declined"} |->
        CASE w = "SUCCESS" -> "success"
          [] w = "Refund Request Queued" -> "refund request queued"
          [] w = "Try after some time" -> "try after some time"
          [] w = "Token Already Used" -> "token already used"
          [] w = "Transaction not exists" -> "transaction not exists"
          [] w = "Invalid Amount" -> "invalid amount"
          [] w = "Refund FAILURE" -> "refund failure"
          [] w = "Success" -> "success"
          [] w = "FAILURE" -> "failure"
          [] w = "Failed" -> "failed"
          [] w = "REFUND" -> "refund"
          [] w = "Refunded" -> "refunded"
          [] w = "DISPUTE" -> "dispute"
          [] w = "Chargeback" -> "chargeback"
          [] w = "TRY AFTER SOME TIME" -> "try after some time"
          [] w = "Amount locked, Try After Some Time" -> "amount locked, try after some time"
          [] w = "Token Already Used for this Amount" -> "token already used for this amount"
          [] w = "Transaction Not Exists for Amount" -> "transaction not exists for amount"
          [] w = "Bank Declined" -> "bank declined"]

\* String.prototype.toLowerCase on the strings of the model
ToLowerCase(s) ==
    IF s \in DOMAIN CaseTable THEN CaseTable[s]
    ELSE IF StartsWith(s, "SHA512(") THEN "sha512(" \o SubSeq(s, 8, Len(s))
    ELSE s

\* crypto.createHash("sha512").update(s).digest("hex")
Sha512Hex(s) == "sha512(" \o s \o ")"

\* the same hex digest written with upper-case letters
UpperHex(s) == "SHA512(" \o s \o ")"

-----------------------------------------------------------------------------
(* Numbers and amounts *)

NaN == [nan |-> TRUE, cents |-> 0]
Num(c) == [nan |-> FALSE, cents |-> c]

\* Numeric texts of the model and their value in hundredths
NumericText ==
    [t \in {"999", "999.00", "1500.5", "1500.50", "500.00", "500", "0"} |->
        CASE t = "999" -> 99900
          [] t = "999.00" -> 99900
          [] t = "1500.5" -> 150050
          [] t = "1500.50" -> 150050
          [] t = "500.00" -> 50000
          [] t = "500" -> 50000
          [] t = "0" -> 0]

\* A parse that keeps the integer part only
ParseFloat_integerPart(v) ==
    IF v \in DOMAIN NumericText THEN Num((NumericText[v] \div 100) * 100) ELSE NaN

\* parseFloat(v) for a string or undefined v
ParseFloat(v) == IF v \in DOMAIN NumericText THEN Num(NumericText[v]) ELSE NaN

TwoDigits(n) == IF n < 10 THEN "0" \o ToString(n) ELSE ToString(n)

\* Number.prototype.toFixed(2)
ToFixed2(n) ==
    IF n.nan THEN "NaN"
    ELSE ToString(n.cents \div 100) \o "." \o TwoDigits(n.cents % 100)

\* An amount handed in by the platform: a number, a string or nothing
AmtNumber(c) == [type |-> "number", cents |-> c, text |-> Undef]
AmtString(t) == [type |-> "string", cents |-> 0, text |-> t]
AmtUndefined == [type |-> "undefined", cents |-> 0, text |-> Undef]

formatAmount(amount) ==
    LET num == IF amount.type = "string" THEN ParseFloat(amount.text)
               ELSE IF amount.type = "number" THEN Num(amount.cents)
               ELSE NaN
    IN ToFixed2(num)

\* A test that lets the number 0 through
AmountTruthy_zeroCounts(amount) ==
    CASE amount.type = "number" -> TRUE
      [] amount.type = "string" -> amount.text # ""
      [] OTHER -> FALSE

\* JavaScript truthiness of an amount (`if (amount)`)
AmountTruthy(amount) ==
    CASE amount.type = "number" -> amount.cents # 0
      [] amount.type = "string" -> amount.text # ""
      [] OTHER -> FALSE

-----------------------------------------------------------------------------
(* Configuration *)

\* PayuPaymentProviderService.validateOptions: raises without key or salt
validateOptions(options) ==
    IF ~Truthy(options.merchantKey)
    THEN [ok |-> FALSE,
          error |-> [type |-> "MedusaError.INVALID_DATA",
                     message |-> "PayU: merchantKey is required. Set PAYU_MERCHANT_KEY environment variable."]]
    ELSE IF ~Truthy(options.merchantSalt)
    THEN [ok |-> FALSE,
          error |-> [type |-> "MedusaError.INVALID_DATA",
                     message |-> "PayU: merchantSalt is required. Set PAYU_MERCHANT_SALT environment variable."]]
    ELSE [ok |-> TRUE, error |-> [type |-> "none", message |-> ""]]

\* The constructor testing the key only
constructor_keyOnly(options) ==
    IF ~Truthy(options.merchantKey)
    THEN [ok |-> FALSE, config |-> options,
          error |-> [type |-> "Error",
                     message |-> "PayU: merchantKey and merchantSalt are required. Set PAYU_MERCHANT_KEY and PAYU_MERCHANT_SALT environment variables."]]
    ELSE [ok |-> TRUE,
          config |-> [merchantKey |-> options.merchantKey,
                      merchantSalt |-> options.merchantSalt,
                      environment |-> Or(options.environment, "test"),
                      autoCapture |-> IF options.autoCapture = Undef THEN "true"
                                      ELSE options.autoCapture],
          error |-> [type |-> "none", message |-> ""]]

\* PayuPaymentProviderService constructor: fails without key or salt,
\* defaults environment to "test" and autoCapture to true.
constructor(options) ==
    IF ~Truthy(options.merchantKey) \/ ~Truthy(options.merchantSalt)
    THEN [ok |-> FALSE, config |-> options,
          error |-> [type |-> "Error",
                     message |-> "PayU: merchantKey and merchantSalt are required. Set PAYU_MERCHANT_KEY and PAYU_MERCHANT_SALT environment variables."]]
    ELSE [ok |-> TRUE,
          config |-> [merchantKey |-> options.merchantKey,
                      merchantSalt |-> options.merchantSalt,
                      environment |-> Or(options.environment, "test"),
                      autoCapture |-> IF options.autoCapture = Undef THEN "true"
                                      ELSE options.autoCapture],
          error |-> [type |-> "none", message |-> ""]]

ProviderOptions ==
    [merchantKey : {"K", "", Undef}, merchantSalt : {"S", Undef},
     environment : {Undef, "test", "production"}, autoCapture : {Undef, "false"}]

\* process.env as read by initiatePayment and updatePayment
EnvChoices ==
    {[STOREFRONT_URL |-> "https://shop", PAYU_REDIRECT_URL |-> "/ok",
      PAYU_REDIRECT_FAILURE_URL |-> "/fail"],
     [STOREFRONT_URL |-> Undef, PAYU_REDIRECT_URL |-> "/ok",
      PAYU_REDIRECT_FAILURE_URL |-> "/fail"],
     [STOREFRONT_URL |-> "https://shop", PAYU_REDIRECT_URL |-> "/ok",
      PAYU_REDIRECT_FAILURE_URL |-> Undef]}

-----------------------------------------------------------------------------
(* PayuClient: hashes and endpoints *)

getPaymentUrl(cfg) ==
    IF cfg.environment = "production" THEN "https://secure.payu.in/_payment"
    ELSE "https://test.payu.in/_payment"

\* A request formula with four reserved slots between udf5 and the salt
generatePaymentHash_fivePipes(cfg, p) ==
    LET hashString ==
            cfg.merchantKey \o "|" \o Str(p.txnid) \o "|" \o Str(p.amount) \o "|"
            \o Str(p.productinfo) \o "|" \o Str(p.firstname) \o "|" \o Str(p.email)
            \o "|" \o Str(Or(p.udf1, "")) \o "|" \o Str(Or(p.udf2, "")) \o "|" \o Str(Or(p.udf3, ""))
            \o "|" \o Str(Or(p.udf4, "")) \o "|" \o Str(Or(p.udf5, "")) \o "|||||"
            \o cfg.merchantSalt
    IN ToLowerCase(Sha512Hex(hashString))

\* A request hash that leaves the last udf slot empty
generatePaymentHash_noUdf5(cfg, p) ==
    ToLowerCase(Sha512Hex(
        cfg.merchantKey \o "|" \o Str(p.txnid) \o "|" \o Str(p.amount) \o "|"
        \o Str(p.productinfo) \o "|" \o Str(p.firstname) \o "|" \o Str(p.email)
        \o "|" \o Str(Or(p.udf1, "")) \o "|" \o Str(Or(p.udf2, "")) \o "|" \o Str(Or(p.udf3, ""))
        \o "|" \o Str(Or(p.udf4, "")) \o "|" \o "||||||" \o cfg.merchantSalt))

\* key|txnid|amount|productinfo|firstname|email|udf1|udf2|udf3|udf4|udf5||||||salt
generatePaymentHash(cfg, p) ==
    LET hashString ==
            cfg.merchantKey \o "|" \o Str(p.txnid) \o "|" \o Str(p.amount) \o "|"
            \o Str(p.productinfo) \o "|" \o Str(p.firstname) \o "|" \o Str(p.email)
            \o "|" \o Str(Or(p.udf1, "")) \o "|" \o Str(Or(p.udf2, "")) \o "|" \o Str(Or(p.udf3, ""))
            \o "|" \o Str(Or(p.udf4, "")) \o "|" \o Str(Or(p.udf5, "")) \o "||||||"
            \o cfg.merchantSalt
    IN ToLowerCase(Sha512Hex(hashString))

\* A reverse formula that leaves the slot of udf3 empty
ReverseHashString_noUdf3(cfg, p) ==
    cfg.merchantSalt \o "|" \o Str(p.status) \o "||||||" \o Str(Or(p.udf5, ""))
    \o "|" \o Str(Or(p.udf4, "")) \o "|" \o "|" \o Str(Or(p.udf2, ""))
    \o "|" \o Str(Or(p.udf1, "")) \o "|" \o Str(p.email) \o "|" \o Str(p.firstname)
    \o "|" \o Str(p.productinfo) \o "|" \o Str(p.amount) \o "|" \o Str(p.txnid)
    \o "|" \o cfg.merchantKey

\* The input string of the reverse formula computed by verifyResponseHash
ReverseHashString(cfg, p) ==
    LET body ==
            cfg.merchantSalt \o "|" \o Str(p.status) \o "||||||" \o Str(Or(p.udf5, ""))
            \o "|" \o Str(Or(p.udf4, "")) \o "|" \o Str(Or(p.udf3, "")) \o "|" \o Str(Or(p.udf2, ""))
            \o "|" \o Str(Or(p.udf1, "")) \o "|" \o Str(p.email) \o "|" \o Str(p.firstname)
            \o "|" \o Str(p.productinfo) \o "|" \o Str(p.amount) \o "|" \o Str(p.txnid)
            \o "|" \o cfg.merchantKey
    IN IF Truthy(p.additionalCharges) THEN Str(p.additionalCharges) \o "|" \o body
       ELSE body

\* A verification that accepts every digest
verifyResponseHash_noCompare(cfg, p) == [threw |-> FALSE, valid |-> TRUE]

\* verifyResponseHash: [threw, valid].  params.hash.toLowerCase() raises a
\* TypeError when hash is undefined or not a string.
verifyResponseHash(cfg, p) ==
    LET calculatedHash == ToLowerCase(Sha512Hex(ReverseHashString(cfg, p)))
    IN IF p.hash = Undef \/ p.hash = NonStr
       THEN [threw |-> TRUE, valid |-> FALSE]
       ELSE [threw |-> FALSE, valid |-> (calculatedHash = ToLowerCase(p.hash))]

-----------------------------------------------------------------------------
(* Sessions *)

NoTxn == [present |-> FALSE, mihpayid |-> Undef, status |-> Undef]

NoResponse ==
    [status |-> 0, msg |-> Undef, request_id |-> Undef, mihpayid |-> Undef,
     error_code |-> Undef]

NoRefund ==
    [present |-> FALSE, tokenId |-> Undef, amount |-> Undef, request_id |-> Undef,
     response |-> NoResponse]

NoForm ==
    [present |-> FALSE, key |-> Undef, txnid |-> Undef, amount |-> Undef,
     productinfo |-> Undef, firstname |-> Undef, email |-> Undef, phone |-> Undef,
     surl |-> Undef, furl |-> Undef, hash |-> Undef, service_provider |-> Undef]

\* The value of `session` before any session exists
NoSession ==
    [txnid |-> Undef, amount |-> Undef, productinfo |-> Undef, firstname |-> Undef,
     email |-> Undef, phone |-> Undef, hash |-> Undef, paymentUrl |-> Undef,
     status |-> Undef, countryCode |-> Undef, payuTransactionId |-> Undef,
     payuResponse |-> NoTxn, refund |-> NoRefund, form_data |-> NoForm]

NoError == [type |-> "none", message |-> ""]
Error(t, m) == [type |-> t, message |-> m]

\* What a provider call gives back: it raised `error`, or it returned `data`
\* (with `status` where the call reports one); `requests` are the gateway
\* requests it issued.
Returned(st, d, reqs) ==
    [threw |-> FALSE, error |-> NoError, status |-> st, data |-> d, requests |-> reqs]
Raised(e, d, reqs) ==
    [threw |-> TRUE, error |-> e, status |-> Undef, data |-> d, requests |-> reqs]

-----------------------------------------------------------------------------
(* PayuClient: gateway calls *)

\* The API address of the test environment, whatever the configuration
ApiUrl_alwaysTest(cfg) ==
    "https://test.payu.in/merchant/postservice.php?form=2"

ApiUrl(cfg) ==
    IF cfg.environment = "production"
    THEN "https://info.payu.in/merchant/postservice.php?form=2"
    ELSE "https://test.payu.in/merchant/postservice.php?form=2"

\* How a gateway call can end: a JSON body, a network failure, the 30 s
\* abort, or a body that is not JSON.
Failures == {"network_error", "timeout", "invalid_json"}

\* fetchWithTimeout and response.json(): the error a failed call raises
FetchError(kind) ==
    CASE kind = "timeout" -> Error("Error", "PayU API request timed out after 30000ms")
      [] kind = "network_error" -> Error("TypeError", "fetch failed")
      [] kind = "invalid_json" -> Error("SyntaxError", "Unexpected token < in JSON")

\* verifyPayment(txnid) against a gateway that answers with outcome o
verifyPayment(cfg, txnid, o) ==
    LET command == "verify_payment"
        hash == Sha512Hex(cfg.merchantKey \o "|" \o command \o "|" \o Str(txnid)
                          \o "|" \o cfg.merchantSalt)
        request == [url |-> ApiUrl(cfg), key |-> cfg.merchantKey, command |-> command,
                    var1 |-> txnid, var2 |-> Undef, var3 |-> Undef, hash |-> hash]
    IN [threw |-> o.kind \in Failures,
        error |-> IF o.kind \in Failures THEN FetchError(o.kind) ELSE NoError,
        response |-> o, request |-> request]

\* refund(mihpayid, tokenId, amount) against a gateway that answers with o
refund(cfg, mihpayid, tokenId, amount, o) ==
    LET command == "cancel_refund_transaction"
        hash == Sha512Hex(cfg.merchantKey \o "|" \o command \o "|" \o Str(mihpayid)
                          \o "|" \o cfg.merchantSalt)
        request == [url |-> ApiUrl(cfg), key |-> cfg.merchantKey, command |-> command,
                    var1 |-> mihpayid, var2 |-> tokenId, var3 |-> amount, hash |-> hash]
    IN [threw |-> o.kind \in Failures,
        error |-> IF o.kind \in Failures THEN FetchError(o.kind) ELSE NoError,
        response |-> o, request |-> request]

\* Entries of transaction_details
TxnEntries ==
    [present : {TRUE}, mihpayid : {"403993715", Undef},
     status : {"success", "failure", "pending"}]

OtherTxnid == "TXN_0_deadbeef"
OtherEntry == [present |-> TRUE, mihpayid |-> "403990000", status |-> "success"]

\* transaction_details maps: the entry of txnid or none, beside the entry of
\* another transaction or none
DetailMaps(txnid) ==
    LET own == {<<>>} \cup {[k \in {txnid} |-> e] : e \in TxnEntries}
        other == {<<>>, [k \in {OtherTxnid} |-> OtherEntry]}
    IN {[k \in (DOMAIN a) \cup (DOMAIN b) |-> IF k \in DOMAIN a THEN a[k] ELSE b[k]] :
            a \in own, b \in other}

JsonVerify(st, m, has, d) ==
    [kind |-> "json", status |-> st, msg |-> m, hasDetails |-> has, details |-> d]

\* Every way the gateway can answer verify_payment for txnid
VerifyOutcomes(txnid) ==
    {JsonVerify(1, "1 out of 1 Transactions Fetched Successfully", TRUE, d) :
        d \in DetailMaps(txnid)}
    \cup {JsonVerify(0, "0 out of 1 Transactions Fetched Successfully", TRUE, d) :
        d \in {<<>>} \cup {[k \in {txnid} |-> e] : e \in TxnEntries}}
    \cup {JsonVerify(st, Undef, FALSE, <<>>) : st \in {0, 1}}
    \cup {[kind |-> k, status |-> 0, msg |-> Undef, hasDetails |-> FALSE,
           details |-> <<>>] : k \in Failures}

\* A lookup that takes whichever entry the map holds
Lookup_anyEntry(details, txnid) ==
    IF DOMAIN details = {} THEN NoTxn
    ELSE details[CHOOSE k \in DOMAIN details : k # txnid \/ DOMAIN details = {txnid}]

\* response.transaction_details[txnid]
Lookup(details, txnid) == IF txnid \in DOMAIN details THEN details[txnid] ELSE NoTxn

-----------------------------------------------------------------------------
(* PayuPaymentProviderService: the operations on a session *)

\* generateTxnId(): TXN_<epoch-ms>_<8 hex chars of randomBytes(4)>
generateTxnId(clock, random) == "TXN_" \o ToString(clock) \o "_" \o random

RandomHex == {"0a1b2c3d"}

NoCustomer == [email |-> Undef, first_name |-> Undef, phone |-> Undef,
               billing_phone |-> Undef]

NoData == [email |-> Undef, firstname |-> Undef, first_name |-> Undef,
           shipping_address_phone |-> Undef, phone |-> Undef,
           productinfo |-> Undef, country_code |-> Undef]

\* A resolution of the email that ends in a placeholder
ResolveEmail_placeholder(customer, inputData) ==
    Or(Or(customer.email, inputData.email), "customer@example.com")

\* const email = customer?.email || inputData?.email
ResolveEmail(customer, inputData) == Or(customer.email, inputData.email)

\* const firstname = customer?.first_name || inputData?.firstname || inputData?.first_name
ResolveFirstname(customer, inputData) ==
    Or(Or(customer.first_name, inputData.firstname), inputData.first_name)

\* const phone = customer?.phone || customer?.billing_address?.phone
\*               || inputData?.shipping_address_phone || inputData?.phone
ResolvePhone(customer, inputData) ==
    Or(Or(Or(customer.phone, customer.billing_phone),
          inputData.shipping_address_phone), inputData.phone)

\* initiatePayment(input) with input = [amount, customer, data]
initiatePayment(cfg, e, input, txnid) ==
    LET formattedAmount == formatAmount(input.amount)
        customer == input.customer
        inputData == input.data
        email == ResolveEmail(customer, inputData)
        firstname == ResolveFirstname(customer, inputData)
        phone == ResolvePhone(customer, inputData)
        productinfo == Or(inputData.productinfo, "Order Payment")
        storefrontUrl == e.STOREFRONT_URL
        redirectPath == e.PAYU_REDIRECT_URL
        redirectFailurePath == e.PAYU_REDIRECT_FAILURE_URL
        countryCode == Or(inputData.country_code, "in")
        surl == Str(storefrontUrl) \o "/" \o countryCode \o Str(redirectPath)
        furl == Str(storefrontUrl) \o "/" \o countryCode \o Str(redirectFailurePath)
        hash == generatePaymentHash(cfg,
                    [txnid |-> txnid, amount |-> formattedAmount,
                     productinfo |-> productinfo, firstname |-> firstname,
                     email |-> email, udf1 |-> Undef, udf2 |-> Undef, udf3 |-> Undef,
                     udf4 |-> Undef, udf5 |-> Undef])
        sessionData ==
            [txnid |-> txnid, amount |-> formattedAmount, productinfo |-> productinfo,
             firstname |-> firstname, email |-> email, phone |-> phone, hash |-> hash,
             paymentUrl |-> getPaymentUrl(cfg), status |-> "pending",
             countryCode |-> countryCode, payuTransactionId |-> Undef,
             payuResponse |-> NoTxn, refund |-> NoRefund,
             form_data |->
                [present |-> TRUE, key |-> cfg.merchantKey, txnid |-> txnid,
                 amount |-> formattedAmount, productinfo |-> productinfo,
                 firstname |-> firstname, email |-> email, phone |-> phone,
                 surl |-> surl, furl |-> furl, hash |-> hash,
                 service_provider |-> "payu_paisa"]]
    IN IF ~Truthy(email)
       THEN Raised(Error("Error", "Customer email is required for payment processing."),
                   NoSession, <<>>)
       ELSE IF ~Truthy(firstname)
       THEN Raised(Error("Error", "Customer name is required for payment processing."),
                   NoSession, <<>>)
       ELSE IF ~Truthy(phone)
       THEN Raised(Error("Error", "Phone number is required for payment processing."),
                   NoSession, <<>>)
       ELSE IF ~Truthy(storefrontUrl) \/ ~Truthy(redirectPath)
               \/ ~Truthy(redirectFailurePath)
       THEN Raised(Error("Error", "STOREFRONT_URL, PAYU_REDIRECT_URL, and PAYU_REDIRECT_FAILURE_URL environment variables are required"),
                   NoSession, <<>>)
       ELSE Returned("pending", sessionData, <<>>)

\* IsSettled that forgets `captured`
IsSettled_onlyAuthorized(s) == s.status = "authorized"

\* The short-circuit test of authorizePayment
IsSettled(s) == s.status = "authorized" \/ s.status = "captured"

\* A short circuit that returns the session without its gateway id
ShortCircuit_dropsId(s) ==
    Returned("authorized", [s EXCEPT !.payuTransactionId = Undef], <<>>)

\* authorizePayment on a settled session: status AUTHORIZED and input.data
ShortCircuit(s) == Returned("authorized", s, <<>>)

\* authorizePayment(input) with input.data = s, the gateway answering with o
authorizePayment(cfg, s, o) ==
    IF IsSettled(s)
    THEN ShortCircuit(s)
    ELSE
        LET call == verifyPayment(cfg, s.txnid, o)
            response == call.response
            txn == Lookup(response.details, s.txnid)
        IN IF call.threw
           THEN Raised(call.error, s, <<call.request>>)
           ELSE IF response.status = 1 /\ ~response.hasDetails
           THEN Raised(Error("TypeError", "Cannot read properties of undefined"),
                       s, <<call.request>>)
           ELSE IF response.status = 1 /\ txn.present /\ txn.status = "success"
           THEN Returned("authorized",
                         [s EXCEPT !.status = "authorized",
                                   !.payuTransactionId = txn.mihpayid,
                                   !.payuResponse = txn],
                         <<call.request>>)
           ELSE Returned("error", [s EXCEPT !.status = "failed"], <<call.request>>)

\* A capture that forgets the gateway's transaction id
capturePayment_dropsId(s) ==
    Returned(Undef, [s EXCEPT !.status = "captured", !.payuTransactionId = Undef], <<>>)

\* capturePayment(input) with input.data = s
capturePayment(s) == Returned(Undef, [s EXCEPT !.status = "captured"], <<>>)

\* cancelPayment(input) with input.data = s
cancelPayment(s) == Returned(Undef, [s EXCEPT !.status = "cancelled"], <<>>)

\* deletePayment(input) and retrievePayment(input) with input.data = s
deletePayment(s) == Returned(Undef, s, <<>>)
retrievePayment(s) == Returned(Undef, s, <<>>)

\* getPaymentStatus(input) with input.data = s
getPaymentStatus(s) ==
    LET statusMap ==
            [pending |-> "pending", authorized |-> "authorized",
             captured |-> "authorized", failed |-> "error",
             refunded |-> "authorized", cancelled |-> "canceled"]
    IN Returned(IF s.status \in DOMAIN statusMap THEN statusMap[s.status] ELSE "pending",
                s, <<>>)

\* Gateway answers to cancel_refund_transaction
JsonRefund(st, m, rid) ==
    [kind |-> "json", status |-> st, msg |-> m, request_id |-> rid,
     mihpayid |-> Undef, error_code |-> Undef]

RefundOutcomes ==
    {JsonRefund(1, "Refund Request Queued", "137107450"),
     JsonRefund(0, "Try after some time", Undef),
     JsonRefund(0, "Refund FAILURE", Undef),
     JsonRefund(0, "Token Already Used", Undef),
     JsonRefund(0, "Transaction not exists", Undef),
     JsonRefund(0, "Invalid Amount", Undef),
     JsonRefund(0, Undef, Undef)}
    \cup {[kind |-> k, status |-> 0, msg |-> Undef, request_id |-> Undef,
           mihpayid |-> Undef, error_code |-> Undef] : k \in Failures}

\* A classification that tests for "amount" before the other classes
RefundErrorMessage_amountFirst(msg, mihpayid, refundAmount) ==
    LET lower == IF msg = Undef THEN Undef ELSE ToLowerCase(msg)
        has(sub) == lower # Undef /\ Includes(lower, sub)
    IN IF has("amount")
       THEN "Invalid refund amount (" \o refundAmount \o "). Please ensure it doesn't exceed the original transaction amount."
       ELSE IF has("try after some time")
       THEN "PayU says: \"" \o msg \o "\". This usually means: (1) The payment was captured today and PayU requires 24 hours before refund, (2) A refund is already in progress for this transaction, or (3) PayU is experiencing temporary issues. Please try again later."
       ELSE IF has("token already used")
       THEN "Refund token already used. A refund may already be pending for this transaction. Please check the transaction status in PayU dashboard."
       ELSE IF has("transaction not exists")
       THEN "Transaction not found in PayU. The mihpayid (" \o mihpayid \o ") may be incorrect."
       ELSE Or(msg, "Unknown error")

\* The message of the error a refused refund raises
RefundErrorMessage(msg, mihpayid, refundAmount) ==
    LET lower == IF msg = Undef THEN Undef ELSE ToLowerCase(msg)
        has(sub) == lower # Undef /\ Includes(lower, sub)
    IN IF has("try after some time")
       THEN "PayU says: \"" \o msg \o "\". This usually means: (1) The payment was captured today and PayU requires 24 hours before refund, (2) A refund is already in progress for this transaction, or (3) PayU is experiencing temporary issues. Please try again later."
       ELSE IF has("token already used")
       THEN "Refund token already used. A refund may already be pending for this transaction. Please check the transaction status in PayU dashboard."
       ELSE IF has("transaction not exists")
       THEN "Transaction not found in PayU. The mihpayid (" \o mihpayid \o ") may be incorrect."
       ELSE IF has("amount")
       THEN "Invalid refund amount (" \o refundAmount \o "). Please ensure it doesn't exceed the original transaction amount."
       ELSE Or(msg, "Unknown error")

\* A precondition that lets every session through
HasGatewayId_always(s) == TRUE

\* The precondition of refundPayment: sessionData.payuTransactionId is truthy
HasGatewayId(s) == Truthy(s.payuTransactionId)

\* const tokenId = `REF_${sessionData.payuTransactionId}_${Date.now()}`
RefundToken(s, clock) == "REF_" \o Str(s.payuTransactionId) \o "_" \o ToString(clock)

\* A refund record that drops the gateway's request id
RefundRecord_noRequestId(tokenId, refundAmount, response) ==
    [present |-> TRUE, tokenId |-> tokenId, amount |-> refundAmount,
     request_id |-> Undef,
     response |-> [status |-> response.status, msg |-> response.msg,
                   request_id |-> response.request_id, mihpayid |-> response.mihpayid,
                   error_code |-> response.error_code]]

\* refund: { tokenId, amount: refundAmount, request_id: response.request_id, response }
RefundRecord(tokenId, refundAmount, response) ==
    [present |-> TRUE, tokenId |-> tokenId, amount |-> refundAmount,
     request_id |-> response.request_id,
     response |-> [status |-> response.status, msg |-> response.msg,
                   request_id |-> response.request_id, mihpayid |-> response.mihpayid,
                   error_code |-> response.error_code]]

\* A test that takes every JSON answer for a success
RefundSucceeded_anyAnswer(response) == TRUE

\* if (response.status === 1)
RefundSucceeded(response) == response.status = 1

\* refundPayment(input) with input.data = s and input.amount = amount, at
\* clock reading `clock`, the gateway answering with o.  Errors that are not
\* MedusaErrors leave as MedusaError UNEXPECTED_STATE with the same message.
refundPayment(cfg, s, amount, clock, o) ==
    IF ~HasGatewayId(s)
    THEN Raised(Error("UNEXPECTED_STATE", "No PayU transaction ID (mihpayid) found. This payment may not have been fully captured or the session data is incomplete."),
                s, <<>>)
    ELSE
        LET tokenId == RefundToken(s, clock)
            refundAmount == formatAmount(amount)
            call == refund(cfg, s.payuTransactionId, tokenId, refundAmount, o)
            response == call.response
        IN IF call.threw
           THEN Raised(Error("UNEXPECTED_STATE", call.error.message), s, <<call.request>>)
           ELSE IF RefundSucceeded(response)
           THEN Returned(Undef,
                         [s EXCEPT !.status = "refunded",
                                   !.refund = RefundRecord(tokenId, refundAmount, response)],
                         <<call.request>>)
           ELSE Raised(Error("INVALID_DATA",
                             "Refund failed: " \o RefundErrorMessage(response.msg,
                                                     Str(s.payuTransactionId), refundAmount)),
                       s, <<call.request>>)

\* An update that stores the new amount beside the old hash
updatePayment_staleHash(cfg, e, s, amount) ==
    IF AmountTruthy(amount)
    THEN Returned(Undef, [s EXCEPT !.amount = formatAmount(amount)], <<>>)
    ELSE Returned(Undef, s, <<>>)

\* updatePayment(input) with input.data = s and input.amount = amount
updatePayment(cfg, e, s, amount) ==
    IF AmountTruthy(amount)
    THEN
        LET formattedAmount == formatAmount(amount)
            storefrontUrl == Or(e.STOREFRONT_URL, "")
            redirectPath == Or(e.PAYU_REDIRECT_URL, "")
            redirectFailurePath == Or(e.PAYU_REDIRECT_FAILURE_URL, "")
            hash == generatePaymentHash(cfg,
                        [txnid |-> s.txnid, amount |-> formattedAmount,
                         productinfo |-> s.productinfo, firstname |-> s.firstname,
                         email |-> s.email, udf1 |-> Undef, udf2 |-> Undef,
                         udf3 |-> Undef, udf4 |-> Undef, udf5 |-> Undef])
            surl == storefrontUrl \o "/" \o Or(s.countryCode, "in") \o redirectPath
            furl == storefrontUrl \o "/" \o Or(s.countryCode, "in") \o redirectFailurePath
        IN Returned(Undef,
                    [s EXCEPT !.amount = formattedAmount, !.hash = hash,
                              !.form_data =
                                 [present |-> TRUE, key |-> cfg.merchantKey,
                                  txnid |-> s.txnid, amount |-> formattedAmount,
                                  productinfo |-> s.productinfo,
                                  firstname |-> s.firstname, email |-> s.email,
                                  phone |-> s.phone, surl |-> surl, furl |-> furl,
                                  hash |-> hash, service_provider |-> "payu_paisa"]],
                    <<>>)
    ELSE Returned(Undef, s, <<>>)

-----------------------------------------------------------------------------
(* The platform calling the provider *)

NoOutcome == [kind |-> "none"]

\* The input of a call that is not initiatePayment
NoInput == [amount |-> AmtUndefined, customer |-> NoCustomer, data |-> NoData]

NoCall ==
    [op |-> "none", from |-> Undef, threw |-> FALSE, error |-> NoError,
     status |-> Undef, requests |-> <<>>, gateway |-> NoOutcome,
     amount |-> AmtUndefined, input |-> NoInput]

\* The record of a call of operation op on a session whose status was `from`
Call(op, from, r, o, amount, input) ==
    [op |-> op, from |-> from, threw |-> r.threw, error |-> r.error,
     status |-> r.status, requests |-> r.requests, gateway |-> o, amount |-> amount,
     input |-> input]

\* No hash function has been used
NoHashed == [op |-> "none"]

NoPayload == [shape |-> "none"]
NoResult == [action |-> "none"]

\* No gateway call is in progress
Idle == [pc |-> "idle"]

\* verifyPaymentStep has not run
NoStep == [op |-> "none"]

\* The platform's concurrent calls, none started
CallIds == {1, 2}
NoCalls == [i \in CallIds |-> [pc |-> "idle"]]

\* Everything but the configuration, before any call
Fresh ==
    /\ env \in EnvChoices
    /\ now = 1
    /\ stored = FALSE
    /\ session = NoSession
    /\ last = NoCall
    /\ webhook = NoPayload
    /\ result = NoResult
    /\ captured = FALSE
    /\ hashed = NoHashed
    /\ fetching = Idle
    /\ step = NoStep
    /\ issued = <<>>
    /\ sessionB = NoSession
    /\ calls = NoCalls

\* The state after the provider is constructed: a valid configuration, an
\* environment, no session yet.
Init ==
    /\ \E options \in ProviderOptions :
          /\ constructor(options).ok
          /\ config = constructor(options).config
    /\ Fresh

\* The platform stores what a call returns; a call that raises stores nothing.
Store(op, r, o, amount, input) ==
    /\ session' = IF r.threw THEN session ELSE r.data
    /\ last' = Call(op, session.status, r, o, amount, input)
    /\ captured' = (captured \/ session'.status = "captured")
    /\ UNCHANGED <<config, env, now, webhook, result, hashed, fetching, step, issued, sessionB, calls>>

Initiate(inputs) ==
    /\ ~stored
    /\ \E input \in inputs, random \in RandomHex :
          LET r == initiatePayment(config, env, input, generateTxnId(now, random))
          IN /\ stored' = ~r.threw
             /\ Store("initiate", r, NoOutcome, input.amount, input)

Authorize ==
    /\ stored
    /\ \E o \in VerifyOutcomes(session.txnid) :
          Store("authorize", authorizePayment(config, session, o), o, AmtUndefined, NoInput)
    /\ UNCHANGED stored

Capture ==
    /\ stored
    /\ Store("capture", capturePayment(session), NoOutcome, AmtUndefined, NoInput)
    /\ UNCHANGED stored

RefundWith(amounts, outcomes) ==
    /\ stored
    /\ \E amount \in amounts, o \in outcomes :
          Store("refund", refundPayment(config, session, amount, now, o), o, amount, NoInput)
    /\ UNCHANGED stored

Refund(amounts) == RefundWith(amounts, RefundOutcomes)

Cancel ==
    /\ stored
    /\ Store("cancel", cancelPayment(session), NoOutcome, AmtUndefined, NoInput)
    /\ UNCHANGED stored

Update(amounts) ==
    /\ stored
    /\ \E amount \in amounts :
          Store("update", updatePayment(config, env, session, amount), NoOutcome, amount, NoInput)
    /\ UNCHANGED stored

Delete ==
    /\ stored
    /\ Store("delete", deletePayment(session), NoOutcome, AmtUndefined, NoInput)
    /\ UNCHANGED stored

Retrieve ==
    /\ stored
    /\ Store("retrieve", retrievePayment(session), NoOutcome, AmtUndefined, NoInput)
    /\ UNCHANGED stored

GetStatus ==
    /\ stored
    /\ Store("getStatus", getPaymentStatus(session), NoOutcome, AmtUndefined, NoInput)
    /\ UNCHANGED stored

\* Time passes between calls
Tick ==
    /\ now < MaxClock
    /\ now' = now + 1
    /\ UNCHANGED <<config, env, stored, session, last, webhook, result, captured, hashed,
                   fetching, step, issued, sessionB, calls>>

\* Inputs of the session-lifecycle specification
Jane == [email |-> "a@b.com", first_name |-> "Jane", phone |-> "9999999999",
         billing_phone |-> Undef]

\* The places an initiate input can carry a customer field in; "empty" is
\* the empty string in the customer context, "none" is no value anywhere
EmailSources == {"customer", "data", "empty", "none"}
FirstnameSources == {"customer", "data.firstname", "data.first_name", "none"}
PhoneSources == {"customer", "billing", "shipping", "data", "none"}

\* The initiate input that carries Jane's email, name and phone in the
\* places es, fs and ps
InputFrom(amount, es, fs, ps) ==
    [amount |-> amount,
     customer |->
        [email |-> CASE es = "customer" -> Jane.email [] es = "empty" -> ""
                     [] OTHER -> Undef,
         first_name |-> IF fs = "customer" THEN Jane.first_name ELSE Undef,
         phone |-> IF ps = "customer" THEN Jane.phone ELSE Undef,
         billing_phone |-> IF ps = "billing" THEN Jane.phone ELSE Undef],
     data |->
        [NoData EXCEPT
            !.email = IF es = "data" THEN Jane.email ELSE Undef,
            !.firstname = IF fs = "data.firstname" THEN Jane.first_name ELSE Undef,
            !.first_name = IF fs = "data.first_name" THEN Jane.first_name ELSE Undef,
            !.shipping_address_phone = IF ps = "shipping" THEN Jane.phone ELSE Undef,
            !.phone = IF ps = "data" THEN Jane.phone ELSE Undef]]

LifecycleInputs ==
    {InputFrom(AmtNumber(50000), es, fs, ps) :
        es \in EmailSources, fs \in FirstnameSources, ps \in PhoneSources}

LifecycleAmounts == {AmtString("1500.5"), AmtNumber(0)}

Next ==
    \/ Initiate(LifecycleInputs)
    \/ Authorize
    \/ Capture
    \/ Refund(LifecycleAmounts)
    \/ Cancel
    \/ Update(LifecycleAmounts)
    \/ Delete
    \/ Retrieve
    \/ GetStatus
    \/ Tick

\* No operation reads config.autoCapture: the lifecycle is explored under
\* its default
InitLifecycle == Init /\ config.autoCapture = "true"

Spec == InitLifecycle /\ [][Next]_vars

-----------------------------------------------------------------------------
(* Webhook payloads *)

FieldOrder ==
    <<"mihpayid", "status", "txnid", "amount", "productinfo", "firstname", "email",
      "udf1", "udf2", "udf3", "udf4", "udf5", "additionalCharges", "hash">>

FieldNames == {FieldOrder[i] : i \in DOMAIN FieldOrder}

\* An object without any of the webhook fields
NoFields == [k \in FieldNames |-> Undef]

\* Form encoding of the values that need it, and its inverse
UrlEncode(v) ==
    CASE v = "a@b.com" -> "a%40b.com"
      [] v = "Order Payment" -> "Order+Payment"
      [] OTHER -> v

UrlDecode(v) ==
    CASE v = "a%40b.com" -> "a@b.com"
      [] v = "Order+Payment" -> "Order Payment"
      [] OTHER -> v

\* The form-encoded body of the fields f: the pairs key=value of the fields
\* that are there, in the order the gateway sends them
EncodeBody(f) ==
    LET keys == SelectSeq(FieldOrder, LAMBDA k : f[k] # Undef)
    IN [i \in DOMAIN keys |-> <<keys[i], UrlEncode(f[keys[i]])>>]

\* Object.fromEntries(new URLSearchParams(bodyStr).entries()): every value
\* decoded, the last pair of a key wins, a key without pair is undefined
FromEntries(body) ==
    [k \in FieldNames |->
        LET at == {i \in DOMAIN body : body[i][1] = k}
        IN IF at = {} THEN Undef
           ELSE UrlDecode(body[CHOOSE i \in at : \A j \in at : j <= i][2])]

\* The three places of a payload where the fields can be
RawAbsent == [kind |-> "absent", body |-> <<>>, fields |-> NoFields]
RawString(body) == [kind |-> "string", body |-> body, fields |-> NoFields]
RawBuffer(body) == [kind |-> "buffer", body |-> body, fields |-> NoFields]
RawObject(f) == [kind |-> "object", body |-> <<>>, fields |-> f]

NestedAbsent == [kind |-> "absent", fields |-> NoFields]
NestedText == [kind |-> "text", fields |-> NoFields]
NestedObject(f) == [kind |-> "object", fields |-> f]

Payload(raw, nested, top) ==
    [shape |-> "payload", rawData |-> raw, data |-> nested, top |-> top]

\* `data?.rawData` is truthy: every object and Buffer, every string but ""
RawTruthy(raw) ==
    \/ raw.kind \in {"object", "buffer"}
    \/ raw.kind = "string" /\ raw.body # <<>>

-----------------------------------------------------------------------------
(* getWebhookActionAndData *)

\* The result of the handler: the action returned, with session_id and
\* amount when it carries data; and what the handler did on the way: the
\* place it took the fields from, the fields, whether verifyResponseHash was
\* called, whether an exception was caught, the branch that returned.
WebhookResult(action, sid, amt, source, event, verified, caught, branch) ==
    [action |-> action, session_id |-> sid, amount |-> amt, source |-> source,
     event |-> event, verifyCalled |-> verified, exception |-> caught,
     branch |-> branch]

NotSupported(source, event, verified, caught, branch) ==
    WebhookResult("not_supported", Undef, NaN, source, event, verified, caught, branch)

\* A selection that looks at the nested object before the raw body
SelectWebhook_nestedFirst(data) ==
    IF data.data.kind = "object"
    THEN [source |-> "data", event |-> data.data.fields]
    ELSE IF RawTruthy(data.rawData)
    THEN [source |-> "rawData",
          event |-> IF data.rawData.kind \in {"string", "buffer"}
                    THEN FromEntries(data.rawData.body)
                    ELSE data.rawData.fields]
    ELSE IF Truthy(data.top.txnid) \/ Truthy(data.top.status)
    THEN [source |-> "top", event |-> data.top]
    ELSE [source |-> "none", event |-> NoFields]

\* Step 1: the payload shape the handler reads the fields from
SelectWebhook(data) ==
    IF RawTruthy(data.rawData)
    THEN [source |-> "rawData",
          event |-> IF data.rawData.kind \in {"string", "buffer"}
                    THEN FromEntries(data.rawData.body)
                    ELSE data.rawData.fields]
    ELSE IF data.data.kind = "object"
    THEN [source |-> "data", event |-> data.data.fields]
    ELSE IF Truthy(data.top.txnid) \/ Truthy(data.top.status)
    THEN [source |-> "top", event |-> data.top]
    ELSE [source |-> "none", event |-> NoFields]

\* The required-field test without the hash
MissingRequired_noHash(w) == ~Truthy(w.txnid) \/ ~Truthy(w.status)

\* !webhook.txnid || !webhook.status || !webhook.hash
MissingRequired(w) == ~Truthy(w.txnid) \/ ~Truthy(w.status) \/ ~Truthy(w.hash)

\* The correlation id with the operands swapped
SessionId_txnidFirst(w) == Or(w.txnid, w.udf1)

\* const sessionId = webhook.udf1 || webhook.txnid
SessionId(w) == Or(w.udf1, w.txnid)

\* A classification that knows `failure` only
StatusBranch_noFailed(status) ==
    CASE status = "success" -> "success"
      [] status = "failure" -> "failed"
      [] status \in {"refund", "refunded"} -> "refund"
      [] status \in {"dispute", "chargeback"} -> "dispute"
      [] OTHER -> "unhandled"

\* The class of a lower-cased status
StatusBranch(status) ==
    CASE status = "success" -> "success"
      [] status \in {"failure", "failed"} -> "failed"
      [] status \in {"refund", "refunded"} -> "refund"
      [] status \in {"dispute", "chargeback"} -> "dispute"
      [] OTHER -> "unhandled"

\* A catch block that lets the exception go on to the caller
Caught_rethrown(source, event) ==
    WebhookResult("raised", Undef, NaN, source, event, TRUE, FALSE, "exception")

\* catch (error) { ...; return { action: "not_supported" } }
Caught(source, event) == NotSupported(source, event, TRUE, TRUE, "exception")

\* getWebhookActionAndData(data).  nanThrows: whether the platform's
\* BigNumber constructor raises on NaN (it is outside this repository).
getWebhookActionAndData(cfg, data, nanThrows) ==
    LET sel == SelectWebhook(data)
        w == sel.event
        check == verifyResponseHash(cfg, [w EXCEPT !.additionalCharges = Undef])
        amount == ParseFloat(w.amount)
        branch == StatusBranch(ToLowerCase(w.status))
    IN IF sel.source = "none"
       THEN NotSupported("none", w, FALSE, FALSE, "invalid_payload")
       ELSE IF MissingRequired(w)
       THEN NotSupported(sel.source, w, FALSE, FALSE, "missing_fields")
       ELSE IF check.threw
       THEN Caught(sel.source, w)
       ELSE IF ~check.valid
       THEN NotSupported(sel.source, w, TRUE, FALSE, "hash_failed")
       ELSE IF w.status = NonStr
       THEN Caught(sel.source, w)
       ELSE IF branch \in {"success", "failed"}
       THEN IF amount.nan /\ nanThrows
            THEN Caught(sel.source, w)
            ELSE WebhookResult(IF branch = "success" THEN "authorized" ELSE "failed",
                               SessionId(w), amount, sel.source, w, TRUE, FALSE, branch)
       ELSE NotSupported(sel.source, w, TRUE, FALSE, branch)

-----------------------------------------------------------------------------
(* The gateway sending webhooks *)

\* The digest the gateway puts into a webhook with fields f: the reverse
\* formula, with the additionalCharges prefix when it sends that field
GatewaySign(cfg, f) == Sha512Hex(ReverseHashString(cfg, f))

\* d with its trailing character replaced
Tamper(d) == SubSeq(d, 1, Len(d) - 1) \o "0"

HashChoices ==
    {"absent", "empty", "nonstring", "genuine", "upper", "tampered", "unprefixed"}

\* The value of the hash field of a webhook with fields f
HashOf(choice, cfg, f) ==
    CASE choice = "absent" -> Undef
      [] choice = "empty" -> ""
      [] choice = "nonstring" -> NonStr
      [] choice = "genuine" -> GatewaySign(cfg, f)
      [] choice = "upper" -> UpperHex(ReverseHashString(cfg, f))
      [] choice = "tampered" -> Tamper(GatewaySign(cfg, f))
      [] choice = "unprefixed" ->
            Sha512Hex(ReverseHashString(cfg, [f EXCEPT !.additionalCharges = Undef]))

Fields(txnid, status, amount, udf1, charges) ==
    [NoFields EXCEPT !.txnid = txnid, !.status = status, !.amount = amount,
                     !.udf1 = udf1, !.additionalCharges = charges,
                     !.email = "a@b.com", !.firstname = "Jane",
                     !.productinfo = "Order Payment", !.mihpayid = "403993715"]

WebhookTxnids == {Undef, "", "TXN_1_0a1b2c3d"}
WebhookStatuses ==
    {Undef, "", NonStr, "success", "SUCCESS", "failure", "Failed", "refund",
     "Refunded", "dispute", "Chargeback", "pending"}
\* <<amount, udf1>>
WebhookAmountUdf1s ==
    {<<"500.00", Undef>>, <<"500.00", "">>, <<"500.00", "sess_abc">>,
     <<Undef, "sess_abc">>, <<"abc", Undef>>}

\* The webhooks the model delivers: every combination of the field values
\* above with every choice of hash, and webhooks that carry additionalCharges
WebhookEvents(cfg) ==
    {[f EXCEPT !.hash = HashOf(h, cfg, f)] :
        f \in {Fields(t, st, au[1], au[2], Undef) :
                  t \in WebhookTxnids, st \in WebhookStatuses,
                  au \in WebhookAmountUdf1s}
              \cup {Fields("TXN_1_0a1b2c3d", st, "500.00", Undef, "10.00") :
                      st \in {"success", "failure"}},
        h \in HashChoices}

\* Those of them the model also delivers beside other places of the payload
CoreEvents(cfg) ==
    {[f EXCEPT !.hash = HashOf(h, cfg, f)] :
        f \in {Fields(t, st, "500.00", u, Undef) :
                  t \in WebhookTxnids, st \in {Undef, "success", "Failed"},
                  u \in {Undef, "sess_abc"}},
        h \in {"genuine", "tampered"}}

\* Form bodies carry strings only
IsText(f) == \A k \in FieldNames : f[k] # NonStr

\* A genuine webhook of another transaction
Decoy(cfg) ==
    LET f == [Fields("TXN_0_deadbeef", "success", "999.00", "sess_other", Undef)
                 EXCEPT !.email = "c@d.com"]
    IN [f EXCEPT !.hash = GatewaySign(cfg, f)]

\* A webhook m alone in one of the three places of the payload
PayloadsOf(m) ==
    {Payload(RawObject(m), NestedAbsent, NoFields),
     Payload(RawAbsent, NestedObject(m), NoFields),
     Payload(RawAbsent, NestedAbsent, m)}
    \cup (IF IsText(m)
          THEN {Payload(RawString(EncodeBody(m)), NestedAbsent, NoFields)}
          ELSE {})

\* A webhook m in one place beside other places that are empty or carry the
\* webhook d
MixedPayloadsOf(m, d) ==
    {Payload(RawObject(m), NestedObject(d), d),
     Payload(RawAbsent, NestedObject(m), d),
     Payload(RawString(<<>>), NestedObject(m), d),
     Payload(RawString(<<>>), NestedAbsent, m),
     Payload(RawObject(d), NestedObject(m), NoFields),
     Payload(RawAbsent, NestedText, m),
     Payload(RawAbsent, NestedObject(NoFields), m),
     Payload(RawAbsent, NestedObject(d), m),
     Payload(RawString(EncodeBody(d)), NestedAbsent, m),
     Payload(RawBuffer(<<>>), NestedObject(m), NoFields),
     Payload(RawString(EncodeBody(m)), NestedObject(d), d),
     Payload(RawBuffer(EncodeBody(m)), NestedAbsent, d),
     Payload(RawString(EncodeBody(d) \o EncodeBody(m)), NestedAbsent, NoFields)}

\* No payload at all: `data` is undefined, and every `data?.x` with it
AbsentPayload ==
    [shape |-> "absent", rawData |-> RawAbsent, data |-> NestedAbsent, top |-> NoFields]

\* A raw body that is not a form body of the gateway
MalformedBody == << <<"<html>", "">> >>

WebhookPayloads(cfg) ==
    UNION {PayloadsOf(m) : m \in WebhookEvents(cfg)}
    \cup UNION {MixedPayloadsOf(m, Decoy(cfg)) : m \in CoreEvents(cfg)}
    \cup {Payload(RawAbsent, NestedAbsent, NoFields), AbsentPayload,
          Payload(RawString(MalformedBody), NestedAbsent, NoFields),
          Payload(RawBuffer(MalformedBody), NestedObject(Decoy(cfg)), Decoy(cfg)),
          Payload(RawAbsent, NestedText, NoFields)}

\* The platform hands the provider the payload of a webhook that arrives
\* after checkout.  The handler is a single-shot classifier: it reads no
\* session and stores nothing.
Webhook(payloads) ==
    /\ stored
    /\ webhook = NoPayload
    /\ \E p \in payloads, nanThrows \in BOOLEAN :
          /\ webhook' = p
          /\ result' = getWebhookActionAndData(config, p, nanThrows)
    /\ UNCHANGED <<config, env, now, stored, session, last, captured, hashed,
                   fetching, step, issued, sessionB, calls>>

\* The webhook specification: one checkout session and one webhook
WebhookInputs == {[amount |-> AmtNumber(50000), customer |-> Jane, data |-> NoData]}

InitWebhook ==
    /\ Init
    /\ config.environment = "test"
    /\ config.autoCapture = "true"
    /\ Truthy(env.STOREFRONT_URL) /\ Truthy(env.PAYU_REDIRECT_FAILURE_URL)

NextWebhook ==
    \/ Initiate(WebhookInputs)
    \/ Webhook(WebhookPayloads(config))

SpecWebhook == InitWebhook /\ [][NextWebhook]_vars

-----------------------------------------------------------------------------
(* Uses of the hash functions of PayuClient *)

\* The fields both hash formulas run over, apart from key, salt and status
UdfNames == {"udf1", "udf2", "udf3", "udf4", "udf5"}
RequestFieldNames == {"txnid", "amount", "productinfo", "firstname", "email"} \cup UdfNames
ResponseFieldNames == RequestFieldNames \cup {"status"}

\* The params of generatePaymentHash for Jane's order
BaseParams ==
    [txnid |-> "TXN_1_0a1b2c3d", amount |-> "500.00", productinfo |-> "Order Payment",
     firstname |-> "Jane", email |-> "a@b.com", udf1 |-> Undef, udf2 |-> Undef,
     udf3 |-> Undef, udf4 |-> Undef, udf5 |-> Undef]

\* Params of generatePaymentHash: the base, the base with one field given
\* another value, the same value in different udf slots, two values in
\* exchanged positions, and values that contain the separator
RequestParams ==
    {BaseParams}
    \cup {[BaseParams EXCEPT ![kv[1]] = kv[2]] :
            kv \in {<<"txnid", "TXN_2_0a1b2c3d">>, <<"amount", "1500.50">>,
                    <<"productinfo", "Order">>, <<"firstname", "Joan">>,
                    <<"email", "c@d.com">>, <<"udf1", "">>, <<"udf1", "x">>,
                    <<"udf2", "x">>, <<"udf3", "x">>, <<"udf4", "x">>,
                    <<"udf5", "x">>}}
    \cup {[BaseParams EXCEPT !.firstname = "a@b.com", !.email = "Jane"],
          [BaseParams EXCEPT !.udf1 = "x", !.udf2 = "y"],
          [BaseParams EXCEPT !.udf1 = "y", !.udf2 = "x"],
          [BaseParams EXCEPT !.firstname = "Jane|a@b.com", !.email = "x"],
          [BaseParams EXCEPT !.firstname = "Jane", !.email = "a@b.com|x"]}

\* v with its last character replaced, or with one character put in when
\* there is none
AlterChar(v) ==
    IF v = Undef \/ v = "" THEN "x"
    ELSE SubSeq(v, 1, Len(v) - 1)
         \o (IF SubSeq(v, Len(v), Len(v)) = "x" THEN "y" ELSE "x")

\* What is changed between the gateway signing a response and the client
\* verifying it: nothing, the digest in one character, the letter case of
\* the digest, or one field in one character
Alterations == {"none", "digest", "case"} \cup ResponseFieldNames

\* Responses the gateway signs
ResponseEvents(cfg) ==
    {Fields("TXN_1_0a1b2c3d", st, "500.00", u, Undef) :
        st \in {"success", "failure"}, u \in {Undef, "sess_abc"}}
    \cup {[Fields("TXN_1_0a1b2c3d", "success", "500.00", "a", Undef)
             EXCEPT !.udf2 = "b", !.udf3 = "c", !.udf4 = "d", !.udf5 = "e"],
          [Fields("TXN_1_0a1b2c3d", "success", "500.00", Undef, Undef)
             EXCEPT !.firstname = "Ja|ne", !.udf5 = "x"]}

\* The params verifyResponseHash is called with for the response f signed
\* by the gateway and altered in `alt`
AlteredParams(cfg, f, alt) ==
    LET signed == [f EXCEPT !.hash = GatewaySign(cfg, f)]
    IN CASE alt = "none" -> signed
         [] alt = "digest" -> [signed EXCEPT !.hash = Tamper(signed.hash)]
         [] alt = "case" -> [signed EXCEPT !.hash = UpperHex(ReverseHashString(cfg, f))]
         [] OTHER -> [signed EXCEPT ![alt] = AlterChar(f[alt])]

\* generatePaymentHash applied to two params
SignRequest(params) ==
    /\ hashed = NoHashed
    /\ \E a \in params, b \in params :
          hashed' = [op |-> "sign", a |-> a, b |-> b,
                     da |-> generatePaymentHash(config, a),
                     db |-> generatePaymentHash(config, b)]
    /\ UNCHANGED <<config, env, now, stored, session, last, webhook, result, captured,
                   fetching, step, issued, sessionB, calls>>

\* verifyResponseHash applied to a response of the gateway, altered or not
VerifyResponse(events) ==
    /\ hashed = NoHashed
    /\ \E f \in events, alt \in Alterations :
          LET p == AlteredParams(config, f, alt)
              check == verifyResponseHash(config, p)
          IN hashed' = [op |-> "verify", original |-> f, params |-> p,
                        threw |-> check.threw, valid |-> check.valid]
    /\ UNCHANGED <<config, env, now, stored, session, last, webhook, result, captured,
                   fetching, step, issued, sessionB, calls>>

NextHash ==
    \/ SignRequest(RequestParams)
    \/ VerifyResponse(ResponseEvents(config))

SpecHash == Init /\ [][NextHash]_vars

-----------------------------------------------------------------------------
(* Properties of authorizePayment and of the session status *)

Settled == {"authorized", "captured"}

\* This step is a call of operation op: every call writes its record, and
\* a call that writes the record that is there already changes nothing.
CallOf(op) == last' # last /\ last'.op = op

\* C1: authorize on a session whose status is `authorized` or `captured`
\* returns the session data unchanged with result status AUTHORIZED and
\* issues no gateway request, at every repetition.
C1_AuthorizeIdempotent ==
    [][(CallOf("authorize") /\ session.status \in Settled)
          => /\ session' = session
             /\ ~last'.threw
             /\ last'.status = "authorized"
             /\ last'.requests = <<>>]_vars

\* An authorize call on a captured session that answered AUTHORIZED without
\* a gateway request
C1_Witness ==
    /\ last.op = "authorize"
    /\ last.from = "captured"
    /\ last.status = "authorized"
    /\ last.requests = <<>>
    /\ session.status = "captured"

\* C2: authorize invoked on a `pending` session ends, for every outcome of
\* the status check (network error and timeout included), with the session
\* in `authorized` or in `failed`.
C2_AuthorizeNeverLeavesPending ==
    (last.op = "authorize" /\ last.from = "pending")
        => session.status \in {"authorized", "failed"}

\* C3: authorize moves a session that is not settled to `authorized` only
\* when the status check answered status 1 and the entry keyed by the
\* session's own txnid has status `success`; the session then records that
\* entry's mihpayid and the entry, and nothing else of it changes.
C3_AuthorizedOnlyOnGatewaySuccess ==
    [][(CallOf("authorize") /\ session.status \notin Settled
        /\ session'.status = "authorized")
          => LET o == last'.gateway
             IN /\ o.kind = "json"
                /\ o.status = 1
                /\ o.hasDetails
                /\ session.txnid \in DOMAIN o.details
                /\ o.details[session.txnid].status = "success"
                /\ session' = [session EXCEPT
                                  !.status = "authorized",
                                  !.payuTransactionId = o.details[session.txnid].mihpayid,
                                  !.payuResponse = o.details[session.txnid]]]_vars

\* A pending session that a successful status check moved to `authorized`
C3_Witness ==
    /\ last.op = "authorize"
    /\ last.from = "pending"
    /\ session.status = "authorized"
    /\ session.payuTransactionId = "403993715"
    /\ session.payuResponse.status = "success"

AllowedTransitions ==
    {<<"pending", "authorized">>, <<"authorized", "captured">>,
     <<"captured", "refunded">>, <<"pending", "failed">>,
     <<"pending", "cancelled">>, <<"authorized", "cancelled">>,
     <<"captured", "cancelled">>}

SessionOps == {"authorize", "capture", "refund", "cancel", "update"}

\* C4: every change of a session's status by authorize, capture, refund,
\* cancel or updateAmount is one of pending->authorized,
\* authorized->captured, captured->refunded, pending->failed, or
\* pending|authorized|captured->cancelled.
C4_TransitionsMonotonic ==
    (last.op \in SessionOps /\ session.status # last.from)
        => <<last.from, session.status>> \in AllowedTransitions

\* C5: once a session's status is `failed` or `cancelled`, no authorize,
\* capture, refund, cancel or updateAmount call changes it.
C5_TerminalAbsorbing ==
    (last.op \in SessionOps /\ last.from \in {"failed", "cancelled"})
        => session.status = last.from

-----------------------------------------------------------------------------
(* Properties of getWebhookActionAndData *)

\* The digest of the reverse formula
\* salt|status||||||udf5|udf4|udf3|udf2|udf1|email|firstname|productinfo|amount|txnid|key
\* over the fields of w
ReverseDigest(cfg, w) ==
    Sha512Hex(ReverseHashString(cfg, [w EXCEPT !.additionalCharges = Undef]))

Delivered == webhook # NoPayload

\* The result says unsupported and carries neither correlation id nor amount
Unsupported(r) == r.action = "not_supported" /\ r.session_id = Undef /\ r.amount = NaN

\* C6 as stated: a webhook whose claimed hash does not equal the
\* reverse-formula digest of its own fields is classified as unsupported
\* for every status, yields no correlation id or amount, and mutates no
\* session.
C6_UnequalHashUnsupported ==
    [][(webhook' # webhook
        /\ result'.event.hash # ReverseDigest(config, result'.event))
          => Unsupported(result') /\ session' = session /\ stored' = stored]_vars

\* C6 amended: a webhook whose claimed hash differs from the reverse-formula
\* digest of its own fields in more than letter case is classified as
\* unsupported for every status, yields no correlation id or amount, and
\* mutates no session.
C6_MismatchedHashUnsupported ==
    [][(webhook' # webhook
        /\ ToLowerCase(result'.event.hash) # ReverseDigest(config, result'.event))
          => Unsupported(result') /\ session' = session /\ stored' = stored]_vars

\* A webhook with status success and a tampered hash, refused after the
\* hash comparison
C6_Witness ==
    /\ Delivered
    /\ stored
    /\ result.event.status = "success"
    /\ result.event.hash = Tamper(ReverseDigest(config, result.event))
    /\ result.branch = "hash_failed"
    /\ Unsupported(result)

\* C7: a webhook in which, after normalization, txnid, status or hash is
\* absent or empty is classified as unsupported without an exception and
\* without a call of the hash verification.
C7_MissingFieldsUnsupported ==
    (Delivered /\ \E k \in {"txnid", "status", "hash"} : result.event[k] \in {Undef, ""})
        => /\ result.action = "not_supported"
           /\ ~result.exception
           /\ ~result.verifyCalled

\* A webhook with txnid and status and an empty hash, refused before
\* verification
C7_Witness ==
    /\ Delivered
    /\ result.source # "none"
    /\ Truthy(result.event.txnid)
    /\ Truthy(result.event.status)
    /\ result.event.hash = ""
    /\ result.action = "not_supported"
    /\ ~result.verifyCalled

\* A webhook with the required fields as strings whose hash is the
\* reverse-formula digest of its fields up to letter case
Authenticated(cfg, w) ==
    /\ Truthy(w.txnid)
    /\ Truthy(w.status) /\ w.status # NonStr
    /\ Truthy(w.hash) /\ w.hash # NonStr
    /\ ToLowerCase(w.hash) = ReverseDigest(cfg, w)

\* The outcome the lower-cased status st stands for
ClassOf(st) ==
    CASE st = "success" -> "authorized"
      [] st = "failure" \/ st = "failed" -> "failed"
      [] st = "refund" \/ st = "refunded" -> "acknowledged"
      [] st = "dispute" \/ st = "chargeback" -> "manual_review"
      [] OTHER -> "unsupported"

\* The outcome a result of the handler stands for
OutcomeOf(r) ==
    CASE r.action \in {"authorized", "failed"} /\ ~r.exception -> r.action
      [] r.action = "not_supported" /\ r.branch = "refund" -> "acknowledged"
      [] r.action = "not_supported" /\ r.branch = "dispute" -> "manual_review"
      [] OTHER -> "unsupported"

\* The outcome is the one of the status; only authorized and failed carry a
\* correlation id and an amount
ClassifiedByStatus(r) ==
    /\ OutcomeOf(r) = ClassOf(ToLowerCase(r.event.status))
    /\ (r.action \in {"authorized", "failed"}) <=> (r.session_id # Undef)
    /\ (r.action \notin {"authorized", "failed"}) => Unsupported(r)

\* C8 as stated: for every authenticated webhook the outcome is a function
\* of the lower-cased status only.
C8_ActionByStatus ==
    (Delivered /\ Authenticated(config, result.event)) => ClassifiedByStatus(result)

\* C8 amended: for every authenticated webhook whose amount is a numeric
\* text the outcome is a function of the lower-cased status only; without
\* a numeric amount a success or failure webhook is classified either by
\* its status or as unsupported.
C8_ActionByStatusAndAmount ==
    (Delivered /\ Authenticated(config, result.event))
        => \/ ClassifiedByStatus(result)
           \/ /\ ParseFloat(result.event.amount).nan
              /\ ClassOf(ToLowerCase(result.event.status)) \in {"authorized", "failed"}
              /\ Unsupported(result)

\* An authenticated webhook with status Failed, classified as failed
C8_Witness ==
    /\ Delivered
    /\ Authenticated(config, result.event)
    /\ result.event.status = "Failed"
    /\ result.action = "failed"
    /\ result.session_id # Undef

\* C9: for every webhook classified authorized or failed the correlation id
\* is udf1 when udf1 is present and not empty, and txnid otherwise.
C9_CorrelationId ==
    (Delivered /\ result.action \in {"authorized", "failed"})
        => result.session_id = IF result.event.udf1 \notin {Undef, ""}
                               THEN result.event.udf1
                               ELSE result.event.txnid

\* The webhook with status success and udf1 sess_abc, authorized for sess_abc
C9_Witness ==
    /\ Delivered
    /\ result.action = "authorized"
    /\ result.event.udf1 = "sess_abc"
    /\ result.event.txnid = "TXN_1_0a1b2c3d"
    /\ result.session_id = "sess_abc"

\* The fields of a raw body, decoded when the body is text
RawFields(raw) ==
    IF raw.kind = "object" THEN raw.fields ELSE FromEntries(raw.body)

\* A raw body is there: an object, a Buffer or a text that is not empty
RawPresent(p) == p.rawData.kind # "absent" /\ p.rawData # RawString(<<>>)

NestedPresent(p) == p.data.kind = "object"

\* C10: the fields come from exactly one place of the payload: from the
\* raw body when there is one; otherwise from the nested object when there
\* is one, whatever it holds; from the top level only when there is neither
\* and the top level has txnid or status.
C10_ShapePrecedence ==
    Delivered
        => /\ RawPresent(webhook)
                => result.source = "rawData" /\ result.event = RawFields(webhook.rawData)
           /\ (~RawPresent(webhook) /\ NestedPresent(webhook))
                => result.source = "data" /\ result.event = webhook.data.fields
           /\ result.source = "top"
                => /\ ~RawPresent(webhook) /\ ~NestedPresent(webhook)
                   /\ result.event = webhook.top
           /\ result.source = "none" => Unsupported(result)

\* A payload with an empty nested object and a genuine webhook at the top
\* level: the nested object is taken
C10_Witness ==
    /\ Delivered
    /\ ~RawPresent(webhook)
    /\ webhook.data = NestedObject(NoFields)
    /\ Authenticated(config, webhook.top)
    /\ result.source = "data"
    /\ result.action = "not_supported"

\* The actions a WebhookActionResult of this provider can carry
WebhookActions == {"authorized", "failed", "not_supported"}

\* No place of the payload yields the required fields
Unparseable(r) ==
    \/ r.source = "none"
    \/ \E k \in {"txnid", "status", "hash"} : r.event[k] \in {Undef, ""}

\* C11: getWebhookActionAndData never raises: for every payload (absent,
\* empty, malformed, unauthenticated, with fields of unexpected shape) it
\* returns an action, and every payload that is unparseable or whose hash is
\* not the digest of its fields returns the unsupported action.
C11_WebhookNeverRaises ==
    Delivered
        => /\ result.action \in WebhookActions
           /\ (Unparseable(result) \/ ~Authenticated(config, result.event))
                => Unsupported(result)

\* A webhook whose hash is not a string: the TypeError of the verification
\* is caught and the handler returns not_supported
C11_Witness ==
    /\ Delivered
    /\ result.event.hash = NonStr
    /\ Truthy(result.event.txnid)
    /\ result.exception
    /\ result.action = "not_supported"

-----------------------------------------------------------------------------
(* Properties of refundPayment *)

\* The last call was a refund that sent a request to the gateway
RefundSubmitted == last.op = "refund" /\ last.requests # <<>>

\* C12: refund on a session with no recorded gateway transaction id fails
\* with an error, issues no gateway request (so no refund token leaves the
\* provider) and leaves the session unchanged.
C12_RefundNeedsGatewayId ==
    [][(CallOf("refund") /\ session.payuTransactionId \in {Undef, ""})
          => /\ last'.threw
             /\ last'.error.type = "UNEXPECTED_STATE"
             /\ StartsWith(last'.error.message, "No PayU transaction ID")
             /\ last'.requests = <<>>
             /\ session' = session]_vars

\* A refund of a pending session, which has no gateway transaction id
C12_Witness ==
    /\ last.op = "refund"
    /\ last.from = "pending"
    /\ session.payuTransactionId = Undef
    /\ last.threw
    /\ last.requests = <<>>
    /\ session.refund = NoRefund

\* C13: a refund call submits a refund to the gateway, and the session is
\* `refunded`, only if the session has been `captured` before.
C13_RefundOnlyAfterCapture ==
    (RefundSubmitted \/ session.status = "refunded") => captured

\* C14: the token a refund call submits differs from the token the refund
\* call before it submitted and from the token of the refund the session
\* records, also when the clock reading is the same.
C14_RefundTokensDiffer ==
    [][(CallOf("refund") /\ last'.requests # <<>>)
          => /\ RefundSubmitted => last'.requests[1].var2 # last.requests[1].var2
             /\ session.refund.present
                  => last'.requests[1].var2 # session.refund.tokenId]_vars

\* C15: when the gateway answers a refund with status 1 the returned
\* session has status `refunded` and a refund record with the token and the
\* 2-decimal amount submitted in that call and the request id and answer of
\* the gateway; nothing else of the session changes.
C15_RefundSuccessRecorded ==
    [][(CallOf("refund") /\ last'.requests # <<>>
        /\ last'.gateway.kind = "json" /\ last'.gateway.status = 1)
          => LET req == last'.requests[1]
                 o == last'.gateway
                 rec == session'.refund
             IN /\ ~last'.threw
                /\ session'.status = "refunded"
                /\ rec.present
                /\ rec.tokenId = req.var2
                /\ rec.amount = req.var3
                /\ rec.amount = formatAmount(last'.amount)
                /\ rec.request_id = o.request_id
                /\ rec.response.status = o.status
                /\ rec.response.msg = o.msg
                /\ rec.response.request_id = o.request_id
                /\ session'.txnid = session.txnid
                /\ session'.payuTransactionId = session.payuTransactionId
                /\ [session' EXCEPT !.status = session.status,
                                    !.refund = session.refund] = session]_vars

\* A captured session refunded at clock reading 1 with the gateway's
\* request id
C15_Witness ==
    /\ last.op = "refund"
    /\ last.from = "captured"
    /\ session.status = "refunded"
    /\ session.refund.tokenId = "REF_403993715_1"
    /\ session.refund.amount = "1500.50"
    /\ session.refund.request_id = "137107450"

\* C16: when the gateway answers a refund with a status other than 1 the
\* call raises an error, whatever the gateway's message, and the session,
\* its status and its refund record stay as they were.
C16_RefundRejectionRaises ==
    [][(CallOf("refund") /\ last'.requests # <<>>
        /\ last'.gateway.kind = "json" /\ last'.gateway.status # 1)
          => /\ last'.threw
             /\ last'.error.type = "INVALID_DATA"
             /\ StartsWith(last'.error.message, "Refund failed: ")
             /\ session' = session]_vars

\* A refund of a captured session that the gateway refuses with
\* "Token Already Used"
C16_Witness ==
    /\ last.op = "refund"
    /\ last.from = "captured"
    /\ last.gateway.msg = "Token Already Used"
    /\ last.threw
    /\ session.status = "captured"
    /\ session.refund = NoRefund

-----------------------------------------------------------------------------
(* Properties of the request hash and of initiatePayment *)

\* An absent udf slot is an empty slot
Slot(v) == IF v = Undef THEN "" ELSE v

\* The request formula
\* key|txnid|amount|productinfo|firstname|email|udf1|udf2|udf3|udf4|udf5||||||salt
RequestFormula(cfg, p) ==
    cfg.merchantKey \o "|" \o p.txnid \o "|" \o p.amount \o "|" \o p.productinfo
    \o "|" \o p.firstname \o "|" \o p.email \o "|" \o Slot(p.udf1) \o "|"
    \o Slot(p.udf2) \o "|" \o Slot(p.udf3) \o "|" \o Slot(p.udf4) \o "|"
    \o Slot(p.udf5) \o "||||||" \o cfg.merchantSalt

\* The request digest of the fields a session carries
SessionDigest(cfg, s) ==
    Sha512Hex(RequestFormula(cfg,
        [txnid |-> s.txnid, amount |-> s.amount, productinfo |-> s.productinfo,
         firstname |-> s.firstname, email |-> s.email, udf1 |-> Undef,
         udf2 |-> Undef, udf3 |-> Undef, udf4 |-> Undef, udf5 |-> Undef]))

\* C19: in every state of a stored session the session's hash is the
\* request digest of its current txnid, amount, productinfo, firstname and
\* email under the configured key and salt, and the form data carries that
\* hash with the same field values.
C19_HashFresh ==
    stored
        => /\ session.hash = SessionDigest(config, session)
           /\ session.form_data.present
           /\ session.form_data.hash = session.hash
           /\ session.form_data.key = config.merchantKey
           /\ session.form_data.txnid = session.txnid
           /\ session.form_data.amount = session.amount
           /\ session.form_data.productinfo = session.productinfo
           /\ session.form_data.firstname = session.firstname
           /\ session.form_data.email = session.email

\* A session initiated with 500.00 whose amount an update made 1500.50
C19_Witness ==
    /\ stored
    /\ last.op = "update"
    /\ last.amount = AmtString("1500.5")
    /\ session.amount = "1500.50"
    /\ session.form_data.amount = "1500.50"
    /\ session.hash = SessionDigest(config, session)

\* No place of the input holds a value for one of email, firstname, phone
Unresolvable(input) ==
    LET c == input.customer
        d == input.data
        none(vs) == \A v \in vs : v \in {Undef, ""}
    IN \/ none({c.email, d.email})
       \/ none({c.first_name, d.firstname, d.first_name})
       \/ none({c.phone, c.billing_phone, d.shipping_address_phone, d.phone})

\* C20: when email, firstname or phone is in no place of the input,
\* initiate raises an error and creates no session (and so no hash); a
\* session that initiate creates carries values that the input holds, never
\* a placeholder or an empty value.
C20_InitiateFailsFast ==
    last.op = "initiate"
        => LET c == last.input.customer
               d == last.input.data
           IN /\ Unresolvable(last.input)
                   => last.threw /\ ~stored /\ session = NoSession
              /\ ~last.threw
                   => /\ session.email \in {c.email, d.email} \ {Undef, ""}
                      /\ session.firstname
                            \in {c.first_name, d.firstname, d.first_name} \ {Undef, ""}
                      /\ session.phone
                            \in {c.phone, c.billing_phone, d.shipping_address_phone,
                                 d.phone} \ {Undef, ""}

\* An initiate with email and name in the customer context and no phone
\* anywhere
C20_Witness ==
    /\ last.op = "initiate"
    /\ last.input.customer.email = "a@b.com"
    /\ last.input.customer.first_name = "Jane"
    /\ Unresolvable(last.input)
    /\ last.threw
    /\ last.error.message = "Phone number is required for payment processing."
    /\ ~stored

-----------------------------------------------------------------------------
(* Properties of the hash functions *)

\* The reverse formula
\* salt|status||||||udf5|udf4|udf3|udf2|udf1|email|firstname|productinfo|amount|txnid|key
ResponseFormula(cfg, w) ==
    cfg.merchantSalt \o "|" \o w.status \o "||||||" \o Slot(w.udf5) \o "|"
    \o Slot(w.udf4) \o "|" \o Slot(w.udf3) \o "|" \o Slot(w.udf2) \o "|"
    \o Slot(w.udf1) \o "|" \o w.email \o "|" \o w.firstname \o "|" \o w.productinfo
    \o "|" \o w.amount \o "|" \o w.txnid \o "|" \o cfg.merchantKey

\* The fields of p that differ from those of o
AlteredFields(p, o) == {k \in ResponseFieldNames : p[k] # o[k]}

Verified == hashed.op = "verify"

\* C17 as stated: verifyResponse returns true for the digest of the reverse
\* formula over the field values it is given, and false when one field
\* value or the claimed digest is altered by one character, the letter case
\* of a digest character included.
C17_VerifyRoundTripExact ==
    Verified
        => LET digest == Sha512Hex(ResponseFormula(config, hashed.original))
               same == AlteredFields(hashed.params, hashed.original) = {}
           IN /\ ~hashed.threw
              /\ hashed.valid <=> (same /\ hashed.params.hash = digest)

\* C17 amended: verifyResponse returns true for the digest of the reverse
\* formula over the field values it is given, in lower or upper case, and
\* false when one field value is altered by one character or the claimed
\* digest differs from it in more than letter case.
C17_VerifyRoundTrip ==
    Verified
        => LET digest == Sha512Hex(ResponseFormula(config, hashed.original))
               same == AlteredFields(hashed.params, hashed.original) = {}
           IN /\ ~hashed.threw
              /\ hashed.valid <=> (same /\ ToLowerCase(hashed.params.hash) = digest)

\* The response with udf1..udf5 set, verified with udf3 altered by one
\* character: refused
C17_Witness ==
    /\ Verified
    /\ hashed.original.udf3 = "c"
    /\ AlteredFields(hashed.params, hashed.original) = {"udf3"}
    /\ hashed.params.hash = Sha512Hex(ResponseFormula(config, hashed.original))
    /\ ~hashed.valid

Signed == hashed.op = "sign"

\* No value of p contains the separator
PipeFree(p) == \A k \in RequestFieldNames : ~Includes(Slot(p[k]), "|")

\* p with absent udf slots made empty
Slots(p) == [k \in RequestFieldNames |-> Slot(p[k])]

\* C18 as stated: identical inputs give the identical digest, and two inputs
\* that differ in a field value (an absent udf counting as an empty one), or
\* carry the same value in a different udf slot or field position, give
\* different digests, values that contain the separator included.
C18_SignSensitiveToAll ==
    Signed
        => /\ hashed.a = hashed.b => hashed.da = hashed.db
           /\ Slots(hashed.a) # Slots(hashed.b) => hashed.da # hashed.db

\* C18 amended: identical inputs give the identical digest, which is the
\* digest of the request formula; two inputs whose values are free of the
\* separator and that differ in a field value, an absent udf counting as an
\* empty one, or carry the same value in a different udf slot or field
\* position, give different digests.
C18_SignSensitive ==
    Signed
        => /\ hashed.da = Sha512Hex(RequestFormula(config, hashed.a))
           /\ hashed.a = hashed.b => hashed.da = hashed.db
           /\ (PipeFree(hashed.a) /\ PipeFree(hashed.b)
               /\ Slots(hashed.a) # Slots(hashed.b)) => hashed.da # hashed.db

\* The value x in udf1 against the value x in udf2: different digests
C18_Witness ==
    /\ Signed
    /\ hashed.a = [BaseParams EXCEPT !.udf1 = "x"]
    /\ hashed.b = [BaseParams EXCEPT !.udf2 = "x"]
    /\ hashed.da # hashed.db

-----------------------------------------------------------------------------
(* Amounts and redirect addresses: initiate and update with every kind of
   amount, in a process whose environment may differ from one start to the
   next *)

\* The numeric amounts the platform hands in: numbers and numeric strings
NumericAmounts ==
    {AmtNumber(99900), AmtNumber(5), AmtNumber(0), AmtString("1500.5"), AmtString("999")}

\* Every kind of amount: numeric, a string that is no number, and nothing
AmountChoices == NumericAmounts \cup {AmtString("abc"), AmtUndefined}

AmountInputs == {[amount |-> a, customer |-> Jane, data |-> NoData] : a \in AmountChoices}

NumericInputs == {[amount |-> a, customer |-> Jane, data |-> NoData] : a \in NumericAmounts}

\* The provider process is started again with another environment; the
\* platform keeps the sessions it holds.
Restart ==
    /\ \E e \in EnvChoices : e # env /\ env' = e
    /\ UNCHANGED <<config, now, stored, session, last, webhook, result, captured, hashed,
                   fetching, step, issued, sessionB, calls>>

NextUpdate ==
    \/ Initiate(AmountInputs)
    \/ Update(AmountChoices)
    \/ Restart

SpecUpdate == InitLifecycle /\ [][NextUpdate]_vars

\* The operations that format an amount, with numeric amounts only
NextAmount ==
    \/ Initiate(NumericInputs)
    \/ Update(NumericAmounts)
    \/ Authorize
    \/ Refund(NumericAmounts)

SpecAmount == InitLifecycle /\ [][NextAmount]_vars

-----------------------------------------------------------------------------
(* C21, C22: amounts *)

Digits == {"0", "1", "2", "3", "4", "5", "6", "7", "8", "9"}

\* t is digits, a point, two digits
IsTwoDecimal(t) ==
    /\ Len(t) >= 4
    /\ SubSeq(t, Len(t) - 2, Len(t) - 2) = "."
    /\ \A i \in (1..Len(t)) \ {Len(t) - 2} : SubSeq(t, i, i) \in Digits

\* t is digits, optionally followed by a point and digits
IsDecimalText(t) ==
    /\ Len(t) >= 1
    /\ \A i \in 1..Len(t) : SubSeq(t, i, i) \in Digits \cup {"."}
    /\ Cardinality({i \in 1..Len(t) : SubSeq(t, i, i) = "."}) <= 1
    /\ SubSeq(t, 1, 1) # "." /\ SubSeq(t, Len(t), Len(t)) # "."

\* The amount is a number or a numeric string
IsNumericAmount(a) ==
    \/ a.type = "number"
    \/ a.type = "string" /\ IsDecimalText(a.text)

\* C21: initiate with an absent or non-numeric amount raises, and no stored
\* session holds an amount that is not digits, a point and two digits.
C21_InitiateValidatesAmount ==
    /\ (last.op = "initiate" /\ ~IsNumericAmount(last.amount)) => last.threw
    /\ stored => IsTwoDecimal(session.amount)

\* The two-decimal text of the numeric amounts of the model, written out by
\* hand
TwoDecimalText(a) ==
    CASE a = AmtNumber(99900) -> "999.00"
      [] a = AmtNumber(5) -> "0.05"
      [] a = AmtNumber(0) -> "0.00"
      [] a = AmtString("1500.5") -> "1500.50"
      [] a = AmtString("999") -> "999.00"

\* C22: after initiate or update with a numeric amount, the session amount is
\* that amount written with exactly two fraction digits, and so is the amount
\* a refund submits to the gateway.
C22_AmountTwoDecimals ==
    /\ (last.op \in {"initiate", "update"} /\ ~last.threw)
          => session.amount = TwoDecimalText(last.amount)
    /\ (last.op = "refund" /\ last.requests # <<>>)
          => last.requests[1].var3 = TwoDecimalText(last.amount)

-----------------------------------------------------------------------------
(* C23: redirect addresses *)

Configured(e) ==
    /\ Truthy(e.STOREFRONT_URL)
    /\ Truthy(e.PAYU_REDIRECT_URL)
    /\ Truthy(e.PAYU_REDIRECT_FAILURE_URL)

\* C23: when the storefront base or a redirect path is not configured,
\* initiate and update raise instead of returning newly built form data.
C23_RedirectsNeverFallBack ==
    [][((CallOf("initiate") \/ CallOf("update")) /\ ~Configured(env))
          => (last'.threw \/ session'.form_data = session.form_data)]_vars

-----------------------------------------------------------------------------
(* Construction: the platform validates the options and constructs the
   provider, then calls it *)

\* this.config_ before the constructor has assigned it
Unconstructed ==
    [merchantKey |-> Undef, merchantSalt |-> Undef, environment |-> Undef,
     autoCapture |-> Undef]

Constructed == config # Unconstructed

\* The platform registers the provider: validateOptions, then the constructor.
\* A provider exists only when neither raised.
Construct ==
    /\ ~Constructed
    /\ \E options \in ProviderOptions :
          LET v == validateOptions(options)
              c == constructor(options)
          IN /\ config' = IF v.ok /\ c.ok THEN c.config ELSE config
             /\ last' = [op |-> "construct", from |-> Undef,
                         threw |-> ~(v.ok /\ c.ok),
                         error |-> IF ~v.ok THEN v.error ELSE c.error,
                         status |-> Undef, requests |-> <<>>, gateway |-> NoOutcome,
                         amount |-> AmtUndefined, input |-> NoInput,
                         options |-> options, validated |-> v.ok, constructed |-> c.ok]
    /\ UNCHANGED <<env, now, stored, session, webhook, result, captured, hashed,
                   fetching, step, issued, sessionB, calls>>

InitConstruct == config = Unconstructed /\ Fresh

\* The webhooks of the session's checkout, genuine and tampered, delivered as
\* top-level fields
CheckoutPayloads(cfg) ==
    {Payload(RawAbsent, NestedAbsent, [f EXCEPT !.hash = HashOf(h, cfg, f)]) :
        f \in {Fields("TXN_1_0a1b2c3d", st, "500.00", Undef, Undef) :
                  st \in {"success", "failure"}},
        h \in {"genuine", "tampered"}}

NextConstruct ==
    \/ Construct
    \/ Constructed /\ Initiate(WebhookInputs)
    \/ Constructed /\ Authorize
    \/ Constructed /\ GetStatus
    \/ Constructed /\ Refund({AmtNumber(50000)})
    \/ Constructed /\ Webhook(CheckoutPayloads(config))

SpecConstruct == InitConstruct /\ [][NextConstruct]_vars

-----------------------------------------------------------------------------
(* C24: no provider without credentials *)

\* A credential that is there and not empty
Present(v) == v # Undef /\ v # ""

\* C24: construction and option validation both fail when the key or the salt
\* is missing or empty, so initiate, authorize, refund and the webhook handler
\* only ever run with a non-empty key and salt; a configuration without
\* environment runs against "test" and one without autoCapture has it enabled.
C24_NoProviderWithoutCredentials ==
    /\ (/\ last.op = "construct"
        /\ ~(Present(last.options.merchantKey) /\ Present(last.options.merchantSalt)))
          => (~last.validated /\ ~last.constructed /\ ~Constructed)
    /\ (last.op \in {"initiate", "authorize", "refund"} \/ webhook # NoPayload)
          => (Present(config.merchantKey) /\ Present(config.merchantSalt))
    /\ (last.op = "construct" /\ ~last.threw)
          => /\ Constructed
             /\ last.options.environment = Undef => config.environment = "test"
             /\ last.options.autoCapture = Undef => config.autoCapture = "true"

\* A construction without a salt has failed and left no provider
C24_Witness ==
    /\ last.op = "construct"
    /\ last.options.merchantKey = "K"
    /\ last.options.merchantSalt = Undef
    /\ last.threw
    /\ ~Constructed
-----------------------------------------------------------------------------
(* A gateway call step by step: fetchWithTimeout arms a timer, awaits
   fetch(), clears the timer in `finally`, and the caller then awaits
   response.json() *)

GatewayCommands == {"verify_payment", "cancel_refund_transaction"}

\* The request of a call with command c
RequestOf(c) ==
    IF c = "verify_payment"
    THEN verifyPayment(config, "TXN_1_0a1b2c3d", NoOutcome).request
    ELSE refund(config, "403993715", "REF_403993715_1", "500.00", NoOutcome).request

\* The call is at position pc; `timer` says whether the abort timer is armed,
\* `aborted` whether controller.abort() has run
Fetching(n, request, pc, timer, error) ==
    [n |-> n, request |-> request, pc |-> pc, timer |-> timer, aborted |-> FALSE,
     error |-> error]

\* verifyPayment or refund is invoked: setTimeout, then fetch()
StartCall ==
    /\ fetching.pc \in {"idle", "returned", "failed"}
    /\ \E c \in GatewayCommands :
          LET n == IF fetching.pc = "idle" THEN 1 ELSE fetching.n + 1
          IN /\ n <= MaxCalls
             /\ fetching' = Fetching(n, RequestOf(c), "awaiting_headers", TRUE, NoError)
    /\ UNCHANGED <<config, env, now, stored, session, last, webhook, result, captured,
                   hashed, step, issued,
                   sessionB, calls>>

\* The gateway answers with its status line and headers: fetch() resolves,
\* `finally` clears the timer, and the caller starts response.json()
HeadersArrive ==
    /\ fetching.pc = "awaiting_headers"
    /\ fetching' = [fetching EXCEPT !.pc = "reading_body", !.timer = FALSE]
    /\ UNCHANGED <<config, env, now, stored, session, last, webhook, result, captured,
                   hashed, step, issued,
                   sessionB, calls>>

\* fetch() rejects for a reason other than the abort; the error is rethrown
NetworkFails ==
    /\ fetching.pc = "awaiting_headers"
    /\ fetching' = [fetching EXCEPT !.pc = "failed", !.timer = FALSE,
                                    !.error = FetchError("network_error")]
    /\ UNCHANGED <<config, env, now, stored, session, last, webhook, result, captured,
                   hashed, step, issued,
                   sessionB, calls>>

\* The timer fires: controller.abort() rejects fetch() with an AbortError,
\* which is rethrown as the timeout error
TimerFires ==
    /\ fetching.pc \in {"awaiting_headers", "reading_body"}
    /\ fetching.timer
    /\ fetching' = [fetching EXCEPT !.pc = "failed", !.timer = FALSE, !.aborted = TRUE,
                                    !.error = FetchError("timeout")]
    /\ UNCHANGED <<config, env, now, stored, session, last, webhook, result, captured,
                   hashed, step, issued,
                   sessionB, calls>>

\* The body arrives whole and parses: response.json() resolves
BodyArrives ==
    /\ fetching.pc = "reading_body"
    /\ fetching' = [fetching EXCEPT !.pc = "returned"]
    /\ UNCHANGED <<config, env, now, stored, session, last, webhook, result, captured,
                   hashed, step, issued,
                   sessionB, calls>>

\* The body is cut short or is no JSON: response.json() rejects
BodyFails ==
    /\ fetching.pc = "reading_body"
    /\ fetching' = [fetching EXCEPT !.pc = "failed", !.error = FetchError("invalid_json")]
    /\ UNCHANGED <<config, env, now, stored, session, last, webhook, result, captured,
                   hashed, step, issued,
                   sessionB, calls>>

NextCall ==
    \/ StartCall
    \/ HeadersArrive
    \/ NetworkFails
    \/ TimerFires
    \/ BodyArrives
    \/ BodyFails

\* The gateway owes no answer; the runtime owes the firing of an armed timer.
SpecCall == InitLifecycle /\ [][NextCall]_vars /\ WF_vars(TimerFires)

-----------------------------------------------------------------------------
(* C25: every gateway call is bounded *)

InFlight == fetching.pc \in {"awaiting_headers", "reading_body"}

Ended == fetching.pc \in {"returned", "failed"}

\* C25: a gateway call in progress, whether it waits for the response or for
\* the rest of its body, eventually returns or fails, and a call the timer
\* ended fails with the "timed out" error.
C25_CallsBounded ==
    /\ InFlight ~> Ended
    /\ []((fetching.pc = "failed" /\ fetching.aborted)
            => fetching.error.message = "PayU API request timed out after 30000ms")
-----------------------------------------------------------------------------
(* C26: endpoints follow the environment *)

ProductionHosts == {"https://secure.payu.in/", "https://info.payu.in/"}
TestHosts == {"https://test.payu.in/"}

\* The address u is on one of the hosts
OnHost(u, hosts) == \E h \in hosts : Len(u) > Len(h) /\ SubSeq(u, 1, Len(h)) = h

\* C26: the checkout address of a session and the address of every status
\* query and refund request are on the production hosts when the configured
\* environment is "production", and on the test host otherwise.
C26_EndpointsFollowEnvironment ==
    LET hosts == IF config.environment = "production" THEN ProductionHosts
                 ELSE TestHosts
    IN /\ stored => OnHost(session.paymentUrl, hosts)
       /\ \A i \in DOMAIN last.requests : OnHost(last.requests[i].url, hosts)

\* A refund request of a production provider has gone to the production API
C26_Witness ==
    /\ config.environment = "production"
    /\ last.op = "refund"
    /\ last.requests # <<>>
    /\ last.requests[1].command = "cancel_refund_transaction"
    /\ OnHost(last.requests[1].url, {"https://info.payu.in/"})
    /\ OnHost(session.paymentUrl, {"https://secure.payu.in/"})
-----------------------------------------------------------------------------
(* verifyPaymentStep of the verify-payu-payment workflow *)

\* What the step hands back: a StepResponse, or an exception
StepResponse(success, status, transaction, error, requests) ==
    [threw |-> FALSE, success |-> success, status |-> status,
     transaction |-> transaction, error |-> error, requests |-> requests]

\* !merchantKey || !merchantSalt
StepConfigMissing(merchantKey, merchantSalt) ==
    ~Truthy(merchantKey) \/ ~Truthy(merchantSalt)

\* A test of the entry alone
StepFound_anyStatus(response, txn) == txn.present

\* response.status === 1 and a truthy response.transaction_details[txnid]
StepFound(response, txn) == response.status = 1 /\ txn.present

\* A catch block that lets the exception through
StepCaught_rethrown(error, requests) ==
    [threw |-> TRUE, success |-> FALSE, status |-> Undef, transaction |-> NoTxn,
     error |-> error.message, requests |-> requests]

\* The catch block of the step
StepCaught(error, requests) ==
    StepResponse(FALSE, "error", NoTxn, error.message, requests)

\* verifyPaymentStep(input) in a process with environment penv, the gateway
\* answering with o
verifyPaymentStep(input, penv, o) ==
    LET merchantKey == IF input.merchantKey = Undef
                       THEN Or(penv.PAYU_MERCHANT_KEY, "") ELSE input.merchantKey
        merchantSalt == IF input.merchantSalt = Undef
                        THEN Or(penv.PAYU_MERCHANT_SALT, "") ELSE input.merchantSalt
        environment == IF input.environment = Undef
                       THEN Or(penv.PAYU_ENVIRONMENT, "test") ELSE input.environment
    IN IF StepConfigMissing(merchantKey, merchantSalt)
       THEN StepResponse(FALSE, "error", NoTxn, "PayU configuration missing", <<>>)
       ELSE
           LET cfg == [merchantKey |-> merchantKey, merchantSalt |-> merchantSalt,
                       environment |-> environment, autoCapture |-> Undef]
               call == verifyPayment(cfg, input.txnid, o)
               response == call.response
               txn == Lookup(response.details, input.txnid)
           IN IF call.threw
              THEN StepCaught(call.error, <<call.request>>)
              ELSE IF response.status = 1 /\ ~response.hasDetails
              THEN StepCaught(Error("TypeError", "Cannot read properties of undefined"),
                              <<call.request>>)
              ELSE IF StepFound(response, txn)
              THEN StepResponse(TRUE, txn.status, txn, Undef, <<call.request>>)
              ELSE StepResponse(FALSE, "not_found", NoTxn,
                                Or(response.msg, "Transaction not found"),
                                <<call.request>>)

\* The inputs of the step: the txnid of the session or of another
\* transaction, with or without credentials of its own
StepInputs ==
    [txnid : {"TXN_1_0a1b2c3d", OtherTxnid}, merchantKey : {Undef, "", "K"},
     merchantSalt : {Undef, "S"}, environment : {Undef}]

\* process.env as the step reads it: with the credentials or without
StepEnvs ==
    {[PAYU_MERCHANT_KEY |-> "K", PAYU_MERCHANT_SALT |-> "S", PAYU_ENVIRONMENT |-> Undef],
     [PAYU_MERCHANT_KEY |-> Undef, PAYU_MERCHANT_SALT |-> Undef,
      PAYU_ENVIRONMENT |-> "production"]}

\* The workflow runs the step once
VerifyStep ==
    /\ step = NoStep
    /\ \E input \in StepInputs, penv \in StepEnvs,
          o \in VerifyOutcomes("TXN_1_0a1b2c3d") :
          LET r == verifyPaymentStep(input, penv, o)
          IN step' = [op |-> "verify", input |-> input, env |-> penv, gateway |-> o,
                      threw |-> r.threw, success |-> r.success, status |-> r.status,
                      transaction |-> r.transaction, error |-> r.error,
                      requests |-> r.requests]
    /\ UNCHANGED <<config, env, now, stored, session, last, webhook, result, captured,
                   hashed, fetching, issued,
                   sessionB, calls>>

NextVerify ==
    \/ Initiate(WebhookInputs)
    \/ Authorize
    \/ VerifyStep

SpecVerify == InitWebhook /\ [][NextVerify]_vars

-----------------------------------------------------------------------------
(* C27, C28: the verification step *)

\* The credential the step works with: the input's, else the environment's
Credential(given, fromEnv) == IF given # Undef THEN given ELSE fromEnv

HasCredentials ==
    /\ Present(Credential(step.input.merchantKey, step.env.PAYU_MERCHANT_KEY))
    /\ Present(Credential(step.input.merchantSalt, step.env.PAYU_MERCHANT_SALT))

\* The gateway call of the step ended in an exception
StepException ==
    \/ step.gateway.kind \in {"network_error", "timeout", "invalid_json"}
    \/ step.gateway.kind = "json" /\ step.gateway.status = 1 /\ ~step.gateway.hasDetails

\* The message of that exception
ExceptionMessage ==
    CASE step.gateway.kind = "network_error" -> "fetch failed"
      [] step.gateway.kind = "timeout" -> "PayU API request timed out after 30000ms"
      [] step.gateway.kind = "invalid_json" -> "Unexpected token < in JSON"
      [] OTHER -> "Cannot read properties of undefined"

\* C27: the verification step never raises: without a key or a salt it
\* returns success false, status "error" and "PayU configuration missing"
\* without calling the gateway; with credentials an exception of the gateway
\* call comes back as success false, status "error" and the exception's
\* message.
C27_VerificationNeverThrows ==
    step.op = "verify" =>
        /\ ~step.threw
        /\ ~HasCredentials =>
              /\ ~step.success /\ step.status = "error"
              /\ step.error = "PayU configuration missing"
              /\ step.requests = <<>>
        /\ (HasCredentials /\ StepException) =>
              /\ ~step.success /\ step.status = "error"
              /\ step.error = ExceptionMessage
              /\ Len(step.requests) = 1

\* A step with credentials from the environment whose gateway call timed out
C27_Witness ==
    /\ step.op = "verify"
    /\ step.input.merchantKey = Undef /\ step.env.PAYU_MERCHANT_KEY = "K"
    /\ HasCredentials
    /\ step.gateway.kind = "timeout"
    /\ ~step.threw /\ ~step.success

\* The gateway answered with a transaction map
Answered(o) == o.kind = "json" /\ o.hasDetails

\* C28: when the gateway answers with a transaction map, the step returns
\* success true with the entry's status exactly when the answer has status 1
\* and the map holds an entry under the requested txnid, and success false with
\* status "not_found" otherwise; authorize given an answer whose map lacks the
\* session's txnid leaves the session failed and does not raise.
C28_AbsentTxnidIsNotFound ==
    /\ (step.op = "verify" /\ HasCredentials /\ Answered(step.gateway)) =>
          LET hit == /\ step.gateway.status = 1
                     /\ step.input.txnid \in DOMAIN step.gateway.details
          IN /\ step.success <=> hit
             /\ hit => /\ step.status = step.gateway.details[step.input.txnid].status
                       /\ step.transaction = step.gateway.details[step.input.txnid]
             /\ ~hit => step.status = "not_found"
    /\ (/\ last.op = "authorize"
        /\ last.from \notin {"authorized", "captured"}
        /\ Answered(last.gateway)
        /\ session.txnid \notin DOMAIN last.gateway.details)
          => (~last.threw /\ session.status = "failed")

\* The same answer, holding another transaction only, has been given to the
\* step and to authorize
C28_Witness ==
    /\ step.op = "verify"
    /\ HasCredentials
    /\ step.input.txnid = session.txnid
    /\ step.gateway.kind = "json" /\ step.gateway.status = 1
    /\ DOMAIN step.gateway.details = {OtherTxnid}
    /\ step.status = "not_found"
    /\ last.op = "authorize"
    /\ last.gateway = step.gateway
    /\ session.status = "failed"
-----------------------------------------------------------------------------
(* Several sessions: the platform calls initiatePayment once per checkout
   and keeps every session; the operations act on the one created last *)

\* What crypto.randomBytes(4).toString("hex") can give
RandomHexes == {"0a1b2c3d", "deadbeef"}

\* initiatePayment for one more checkout; `issued` keeps the txnid of every
\* session created, with the clock reading and the random bytes it was made of
InitiateNext(inputs) ==
    /\ Len(issued) < MaxSessions
    /\ \E input \in inputs, random \in RandomHexes :
          LET r == initiatePayment(config, env, input, generateTxnId(now, random))
          IN /\ stored' = (stored \/ ~r.threw)
             /\ session' = IF r.threw THEN session ELSE r.data
             /\ last' = Call("initiate", Undef, r, NoOutcome, input.amount, input)
             /\ issued' = IF r.threw THEN issued
                          ELSE Append(issued, [txnid |-> r.data.txnid, clock |-> now,
                                               random |-> random])
    /\ UNCHANGED <<config, env, now, webhook, result, captured, hashed, fetching, step,
                   sessionB, calls>>

NextTxnid ==
    \/ InitiateNext(WebhookInputs)
    \/ Authorize
    \/ Capture
    \/ Update(LifecycleAmounts)
    \/ Cancel
    \/ Tick

SpecTxnid == InitWebhook /\ [][NextTxnid]_vars

-----------------------------------------------------------------------------
(* C29: txnids are unique *)

\* C29: any two sessions created by initiate, at the same clock reading or
\* not, have different txnids, and the session created last still has the
\* txnid it was created with.
C29_TxnidsUnique ==
    /\ \A i, j \in DOMAIN issued : i # j => issued[i].txnid # issued[j].txnid
    /\ stored => session.txnid = issued[Len(issued)].txnid
-----------------------------------------------------------------------------
(* From checkout to authorization: a session, the gateway's webhook for it,
   and authorizePayment *)

\* Checkouts of several amounts and products
EndToEndInputs ==
    {[amount |-> a, customer |-> Jane, data |-> [NoData EXCEPT !.productinfo = p]] :
        a \in {AmtNumber(50000), AmtNumber(150050), AmtString("999")},
        p \in {Undef, "Shoes"}}

\* The webhook the gateway sends for the checkout of session s: the session's
\* txnid, amount, productinfo, firstname and email, a status, and a hash
SessionEvent(cfg, s, st, h) ==
    LET f == [NoFields EXCEPT !.txnid = s.txnid, !.status = st, !.amount = s.amount,
                              !.productinfo = s.productinfo,
                              !.firstname = s.firstname, !.email = s.email,
                              !.mihpayid = "403993715"]
    IN [f EXCEPT !.hash = HashOf(h, cfg, f)]

\* That webhook in every place of the payload
SessionPayloads(cfg, s) ==
    UNION {PayloadsOf(SessionEvent(cfg, s, st, h)) :
              st \in {"success", "failure"}, h \in {"genuine", "tampered"}}

NextEndToEnd ==
    \/ Initiate(EndToEndInputs)
    \/ Webhook(SessionPayloads(config, session))
    \/ Authorize
    \/ Tick

SpecEndToEnd == InitWebhook /\ [][NextEndToEnd]_vars

-----------------------------------------------------------------------------
(* C30: end to end *)

\* The number a session amount stands for
SessionAmount(t) ==
    CASE t = "500.00" -> Num(50000)
      [] t = "1500.50" -> Num(150050)
      [] t = "999.00" -> Num(99900)
      [] OTHER -> NaN

\* The webhook w is the success webhook of session s: its txnid, amount,
\* productinfo, firstname and email, and the digest of the reverse formula
SuccessWebhookOf(cfg, s, w) ==
    /\ w.txnid = s.txnid /\ w.status = "success" /\ w.amount = s.amount
    /\ w.productinfo = s.productinfo /\ w.firstname = s.firstname
    /\ w.email = s.email
    /\ w.hash = Sha512Hex(ResponseFormula(cfg, w))

\* The gateway reports success for txnid
ReportsSuccess(o, txnid) ==
    /\ o.kind = "json" /\ o.status = 1
    /\ txnid \in DOMAIN o.details
    /\ o.details[txnid].status = "success"

\* C30: the success webhook of a pending session, signed with the reverse
\* formula, is classified "authorized" with the session's txnid as correlation
\* id and the session's amount, and an authorize that follows it and to which
\* the gateway reports success leaves the session authorized.
C30_EndToEnd ==
    [][/\ (/\ webhook' # webhook
           /\ session.status = "pending"
           /\ SuccessWebhookOf(config, session, result'.event))
             => /\ result'.action = "authorized"
                /\ result'.session_id = session.txnid
                /\ result'.amount = SessionAmount(session.amount)
       /\ (/\ Delivered
           /\ result.action = "authorized"
           /\ session.status = "pending"
           /\ CallOf("authorize")
           /\ ReportsSuccess(last'.gateway, session.txnid))
             => (~last'.threw /\ session'.status = "authorized")]_vars

\* A session of 1500.50 has had its success webhook classified and has then
\* been authorized
C30_Witness ==
    /\ Delivered
    /\ SuccessWebhookOf(config, session, result.event)
    /\ result.action = "authorized"
    /\ result.session_id = session.txnid
    /\ session.amount = "1500.50"
    /\ last.op = "authorize" /\ last.from = "pending"
    /\ session.status = "authorized"
-----------------------------------------------------------------------------
(* Concurrent calls: the platform holds two sessions and has up to two
   provider calls in progress; each call works on the session data it was
   handed when it began, and the platform stores what it returns *)

\* The fields of the provider and of its client after a call: the methods
\* assign none of config_, client_ and PayuClient.config
InstanceAfter_lastEnvironment(cfg) == [cfg EXCEPT !.environment = "production"]

InstanceAfter(cfg) == cfg

ConcurrentOps == {"authorize", "capture", "cancel"}

\* Operation op on session data s
Apply(op, cfg, s, o) ==
    CASE op = "authorize" -> authorizePayment(cfg, s, o)
      [] op = "capture" -> capturePayment(s)
      [] op = "cancel" -> cancelPayment(s)

\* Answers of the gateway for txnid: a success entry, a failure entry, a map
\* without the txnid, an answer without map, a network failure
ConcurrentOutcomes(txnid) ==
    {o \in VerifyOutcomes(txnid) :
        \/ o.kind = "network_error"
        \/ o.kind = "json" /\ o.status = 1 /\ ~o.hasDetails
        \/ /\ o.kind = "json" /\ o.status = 1 /\ o.hasDetails
           /\ OtherTxnid \notin DOMAIN o.details
           /\ txnid \in DOMAIN o.details =>
                 /\ o.details[txnid].mihpayid = "403993715"
                 /\ o.details[txnid].status \in {"success", "failure"}}

SessionAt(target) == IF target = "A" THEN session ELSE sessionB

\* initiatePayment for a second checkout
InitiateB ==
    /\ stored
    /\ sessionB = NoSession
    /\ \E input \in WebhookInputs :
          LET r == initiatePayment(config, env, input, generateTxnId(now, "deadbeef"))
          IN /\ ~r.threw
             /\ sessionB' = r.data
    /\ UNCHANGED <<config, env, now, stored, session, last, webhook, result, captured,
                   hashed, fetching, step, issued, calls>>

\* The platform calls an operation with the data of one of its sessions
Begin(i) ==
    /\ stored /\ sessionB # NoSession
    /\ calls[i].pc = "idle"
    /\ \E target \in {"A", "B"}, op \in ConcurrentOps :
          calls' = [calls EXCEPT ![i] =
                       [pc |-> "running", target |-> target, op |-> op,
                        snapshot |-> SessionAt(target)]]
    /\ UNCHANGED <<config, env, now, stored, session, last, webhook, result, captured,
                   hashed, fetching, step, issued, sessionB>>

\* The call returns or raises; the platform stores the data it returned
Finish(i) ==
    /\ calls[i].pc = "running"
    /\ \E o \in IF calls[i].op = "authorize"
                THEN ConcurrentOutcomes(calls[i].snapshot.txnid) ELSE {NoOutcome} :
          LET c == calls[i]
              r == Apply(c.op, config, c.snapshot, o)
          IN /\ calls' = [calls EXCEPT ![i] =
                             [pc |-> "done", target |-> c.target, op |-> c.op,
                              snapshot |-> c.snapshot, gateway |-> o,
                              threw |-> r.threw, data |-> r.data]]
             /\ session' = IF c.target = "A" /\ ~r.threw THEN r.data ELSE session
             /\ sessionB' = IF c.target = "B" /\ ~r.threw THEN r.data ELSE sessionB
             /\ config' = InstanceAfter(config)
    /\ UNCHANGED <<env, now, stored, last, webhook, result, captured, hashed, fetching,
                   step, issued>>

NextConcurrent ==
    \/ Initiate(WebhookInputs)
    \/ InitiateB
    \/ \E i \in CallIds : Begin(i)
    \/ \E i \in CallIds : Finish(i)
    \/ Webhook(CheckoutPayloads(config))

SpecConcurrent == InitWebhook /\ [][NextConcurrent]_vars

-----------------------------------------------------------------------------
(* C31: operations are reentrant *)

\* The classification of a checkout webhook, from the webhook alone
Classification(w) ==
    IF w.hash # Sha512Hex(ResponseFormula(config, w)) THEN "not_supported"
    ELSE IF w.status = "success" THEN "authorized" ELSE "failed"

-----------------------------------------------------------------------------
(* C40: duplicate authorization *)

\* What a single authorize leaves of a pending session when the gateway
\* answers o: <<status, gateway id>>
SingleAuthorize(o, txnid) ==
    IF o.kind # "json" \/ (o.status = 1 /\ ~o.hasDetails)
    THEN <<"pending", Undef>>
    ELSE IF o.status = 1 /\ txnid \in DOMAIN o.details
            /\ o.details[txnid].status = "success"
    THEN <<"authorized", o.details[txnid].mihpayid>>
    ELSE <<"failed", Undef>>

\* C40: two authorize calls on the same pending session, given the same answer
\* by the gateway, leave the session with the status and the gateway id a
\* single call leaves, in whatever order they begin and finish.
C40_DuplicateAuthorize ==
    (/\ \A i \in CallIds : /\ calls[i].pc = "done"
                           /\ calls[i].target = "A"
                           /\ calls[i].op = "authorize"
     /\ calls[1].gateway = calls[2].gateway)
        => <<session.status, session.payuTransactionId>>
              = SingleAuthorize(calls[1].gateway, session.txnid)

\* Both calls were handed the pending session and the gateway reported
\* success to both
C40_Witness ==
    /\ \A i \in CallIds : /\ calls[i].pc = "done"
                          /\ calls[i].target = "A"
                          /\ calls[i].op = "authorize"
                          /\ calls[i].snapshot.status = "pending"
                          /\ ~calls[i].threw
    /\ calls[1].gateway = calls[2].gateway
    /\ session.status = "authorized"
    /\ session.payuTransactionId = "403993715"

\* ---------------------------------------------------------------------------
\* Refund failures

\* Refusals of cancel_refund_transaction whose messages fall into one class,
\* several classes or none, in several letter cases
ClassifiedOutcomes ==
    {JsonRefund(0, msg, Undef) :
        msg \in {"Try after some time", "TRY AFTER SOME TIME", "try after some time",
                 "Token Already Used", "Transaction not exists", "Invalid Amount",
                 "Amount locked, Try After Some Time",
                 "Token Already Used for this Amount",
                 "Transaction Not Exists for Amount",
                 "token already used, try after some time",
                 "transaction not exists: token already used",
                 "Bank Declined", "Refund FAILURE"}}
    \cup {JsonRefund(1, "Refund Request Queued", "137107450")}

NextRefund ==
    \/ Initiate(WebhookInputs)
    \/ Authorize
    \/ Capture
    \/ RefundWith({AmtNumber(50000), AmtNumber(150050)}, ClassifiedOutcomes)

SpecRefund == InitWebhook /\ [][NextRefund]_vars

\* The classes of refusal in their fixed order
RefundClasses ==
    <<"try after some time", "token already used", "transaction not exists", "amount">>

\* The first class a lower-case message matches, 0 when it matches none
FirstClass(lower) ==
    IF \E i \in 1..Len(RefundClasses) : Includes(lower, RefundClasses[i])
    THEN CHOOSE i \in 1..Len(RefundClasses) :
            /\ Includes(lower, RefundClasses[i])
            /\ \A j \in 1..(i - 1) : ~Includes(lower, RefundClasses[j])
    ELSE 0

\* The class an error message reports, 0 when it reports none
ReportedClass(message) ==
    CASE StartsWith(message, "Refund failed: PayU says: ") -> 1
      [] StartsWith(message, "Refund failed: Refund token already used.") -> 2
      [] StartsWith(message, "Refund failed: Transaction not found in PayU.") -> 3
      [] StartsWith(message, "Refund failed: Invalid refund amount") -> 4
      [] OTHER -> 0

\* The gateway refused the refund of a session that has a gateway id, with a message
Refused ==
    /\ CallOf("refund")
    /\ HasGatewayId(session)
    /\ last'.gateway.kind = "json"
    /\ last'.gateway.status # 1
    /\ Truthy(last'.gateway.msg)

\* C32: a refused refund raises an error whose class is the first, in the
\* order retry-later, token-already-used, transaction-not-found,
\* invalid-amount, that the gateway's message matches without regard to letter
\* case; a message that matches no class is passed on verbatim.
C32_RefundClassification ==
    [][Refused =>
          LET msg == last'.gateway.msg
              class == FirstClass(ToLowerCase(msg))
          IN /\ last'.threw
             /\ ReportedClass(last'.error.message) = class
             /\ class = 0 => last'.error.message = "Refund failed: " \o msg]_vars

\* A refusal whose message matches the first and the last class was reported
\* as retry-later
C32_Witness ==
    /\ last.op = "refund"
    /\ last.gateway.kind = "json"
    /\ last.gateway.msg = "Amount locked, Try After Some Time"
    /\ last.threw
    /\ ReportedClass(last.error.message) = 1

\* ---------------------------------------------------------------------------
\* Webhooks that carry additionalCharges

\* The webhook delivered carries additionalCharges and the digest the gateway
\* computes for it with the prefixed reverse formula
ChargedGenuine ==
    /\ result # NoResult
    /\ result.source # "none"
    /\ Truthy(result.event.additionalCharges)
    /\ result.event.hash = GatewaySign(config, result.event)
    /\ result.event.status \in {"success", "failure"}

\* C33: a genuine webhook that carries additionalCharges, signed with the
\* prefixed reverse formula, is verified as authentic and classified by its
\* status.
C33_ChargedWebhookVerified ==
    ChargedGenuine =>
        /\ result.action = (IF result.event.status = "success" THEN "authorized" ELSE "failed")
        /\ ~result.exception

\* ---------------------------------------------------------------------------
\* verifyResponseHash on every kind of claimed digest

DigestChoices == HashChoices \cup {"short"}

\* The claimed digest of a response with fields f
ClaimedDigest(choice, cfg, f) ==
    IF choice = "short" THEN SubSeq(GatewaySign(cfg, f), 1, 12)
    ELSE HashOf(choice, cfg, f)

\* verifyResponseHash applied to a response with a claimed digest of any kind
VerifyClaimed(events) ==
    /\ hashed = NoHashed
    /\ \E f \in events, h \in DigestChoices :
          LET p == [f EXCEPT !.hash = ClaimedDigest(h, config, f)]
              check == verifyResponseHash(config, p)
          IN hashed' = [op |-> "verify", original |-> f, params |-> p,
                        threw |-> check.threw, valid |-> check.valid]
    /\ UNCHANGED <<config, env, now, stored, session, last, webhook, result, captured,
                   fetching, step, issued, sessionB, calls>>

NextDigest ==
    \/ VerifyClaimed(ResponseEvents(config))
    \/ SignRequest(RequestParams)

SpecDigest == Init /\ [][NextDigest]_vars

\* The claimed digest equals the computed digest up to letter case
DigestsAgree(cfg, p) ==
    /\ p.hash \notin {Undef, NonStr}
    /\ ToLowerCase(p.hash) = ToLowerCase(Sha512Hex(ReverseHashString(cfg, p)))

\* C34: verifyResponse is total and case-insensitive: for every input, an
\* absent, empty or too short claimed digest included, it returns a boolean
\* and never raises, and it returns true exactly when the claimed digest
\* equals the computed digest up to letter case.
C34_VerifyTotal ==
    hashed.op = "verify" =>
        /\ ~hashed.threw
        /\ hashed.valid <=> DigestsAgree(config, hashed.params)

\* ---------------------------------------------------------------------------
\* Customer fields that more than one source supplies

\* Initiate inputs in which every source of email, firstname and phone is
\* absent or carries a value of its own
ContactInputs ==
    {[amount |-> AmtNumber(50000),
      customer |-> [email |-> ce, first_name |-> cf, phone |-> cp, billing_phone |-> bp],
      data |-> [NoData EXCEPT !.email = de, !.firstname = df, !.phone = dp,
                              !.shipping_address_phone = sp]] :
        ce \in {Undef, "ctx@b.com"}, de \in {Undef, "payload@b.com"},
        cf \in {Undef, "Ctx"}, df \in {Undef, "Payload"},
        cp \in {Undef, "1111111111"}, bp \in {Undef, "2222222222"},
        sp \in {Undef, "3333333333"}, dp \in {Undef, "4444444444"}}

NextContact ==
    \/ Initiate(ContactInputs)
    \/ Authorize

SpecContact == InitWebhook /\ [][NextContact]_vars

\* The value of the highest source that supplies one, in the order explicit
\* payload value, customer context, address-derived values
Preferred(payload, context, addresses) ==
    IF Truthy(payload) THEN {payload}
    ELSE IF Truthy(context) THEN {context}
    ELSE {a \in addresses : Truthy(a)}

\* C35: when more than one source supplies email, firstname or phone,
\* initiate uses the explicit payload value in preference to the customer
\* context, and the customer context in preference to an address-derived
\* value.
C35_PayloadFirst ==
    (last.op = "initiate" /\ ~last.threw) =>
        LET c == last.input.customer
            d == last.input.data
        IN /\ session.email \in Preferred(d.email, c.email, {})
           /\ session.firstname \in Preferred(Or(d.firstname, d.first_name), c.first_name, {})
           /\ session.phone \in Preferred(d.phone, c.phone,
                                          {c.billing_phone, d.shipping_address_phone})

\* ---------------------------------------------------------------------------
\* The bookkeeping operations

NextBookkeeping ==
    \/ Initiate(WebhookInputs)
    \/ Authorize
    \/ Capture
    \/ Refund({AmtNumber(50000)})
    \/ Cancel
    \/ Delete
    \/ Retrieve

SpecBookkeeping == InitWebhook /\ [][NextBookkeeping]_vars

\* The status capture and cancel write
BookkeepingStatus(op) == IF op = "capture" THEN "captured" ELSE "cancelled"

\* C36: capture and cancel issue no gateway call and change only the status
\* of the session (txnid, amount, hash, gateway transaction id, gateway
\* response and refund record stay as they are); delete and retrieve return
\* the session data unchanged.
C36_Bookkeeping ==
    [][/\ \A op \in {"capture", "cancel"} :
            CallOf(op) =>
                /\ ~last'.threw
                /\ last'.requests = <<>>
                /\ session' = [session EXCEPT !.status = BookkeepingStatus(op)]
       /\ \A op \in {"delete", "retrieve"} :
            CallOf(op) =>
                /\ ~last'.threw
                /\ last'.requests = <<>>
                /\ session' = session]_vars

\* A capture of a refunded session: the refund record and the gateway's
\* transaction id are still there
C36_Witness ==
    /\ last.op = "capture"
    /\ last.from = "refunded"
    /\ session.status = "captured"
    /\ session.refund.present
    /\ Truthy(session.payuTransactionId)
    /\ session.payuResponse.present

\* ---------------------------------------------------------------------------
\* The frame of updatePayment

\* Checkouts with and without a country code of their own
FrameInputs ==
    {[amount |-> AmtNumber(50000), customer |-> Jane,
      data |-> [NoData EXCEPT !.country_code = cc, !.productinfo = pi]] :
        cc \in {Undef, "us"}, pi \in {Undef, "Shoes"}}

\* A new amount, the amount zero, an empty amount and no amount
FrameAmounts ==
    {AmtNumber(99900), AmtString("1500.5"), AmtNumber(0), AmtString(""), AmtUndefined}

NextFrame ==
    \/ Initiate(FrameInputs)
    \/ Authorize
    \/ Update(FrameAmounts)
    \/ Restart

SpecFrame == InitLifecycle /\ [][NextFrame]_vars

\* The fields of the session updateAmount does not write
UpdateFrame ==
    {"txnid", "productinfo", "firstname", "email", "phone", "status",
     "payuTransactionId", "payuResponse", "refund", "paymentUrl", "countryCode"}

\* An amount that is there and is not zero
IsNewAmount(amount) ==
    \/ amount.type = "number" /\ amount.cents # 0
    \/ amount.type = "string" /\ amount.text \in {"1500.5"}

\* The request formula over the fields of session s
SessionHashInput(cfg, s) ==
    cfg.merchantKey \o "|" \o s.txnid \o "|" \o s.amount \o "|" \o s.productinfo
    \o "|" \o s.firstname \o "|" \o s.email \o "|||||||||||" \o cfg.merchantSalt

\* C37: updateAmount with a new amount replaces amount, hash and the outbound
\* form data, whose success and failure URLs are rebuilt with the session's
\* country code, and leaves txnid, productinfo, firstname, email, phone,
\* status and the gateway transaction id as they are; with no amount, or with
\* the amount zero, it returns the session data unchanged.
C37_UpdateFrame ==
    [][CallOf("update") =>
          /\ ~last'.threw
          /\ last'.requests = <<>>
          /\ \A f \in UpdateFrame : session'[f] = session[f]
          /\ IF IsNewAmount(last'.amount)
             THEN /\ session'.amount = TwoDecimalText(last'.amount)
                  /\ session'.hash = Sha512Hex(SessionHashInput(config, session'))
                  /\ session'.form_data.present
                  /\ session'.form_data.amount = session'.amount
                  /\ session'.form_data.hash = session'.hash
                  /\ session'.form_data.txnid = session.txnid
                  /\ \E site \in {"", "https://shop"}, ok \in {"", "/ok"}, fail \in {"", "/fail"} :
                        /\ session'.form_data.surl = site \o "/" \o session.countryCode \o ok
                        /\ session'.form_data.furl = site \o "/" \o session.countryCode \o fail
             ELSE session' = session]_vars

\* An update of an authorized session of country us to a new amount
C37_Witness ==
    /\ last.op = "update"
    /\ last.amount = AmtNumber(99900)
    /\ session.amount = "999.00"
    /\ session.status = "authorized"
    /\ session.countryCode = "us"
    /\ Truthy(session.payuTransactionId)
    /\ session.form_data.surl = "https://shop/us/ok"

\* ---------------------------------------------------------------------------
\* The positions of the hash formulas

RECURSIVE JoinPipe(_)
\* The values of a sequence joined by `|`
JoinPipe(seq) ==
    IF Len(seq) = 0 THEN ""
    ELSE IF Len(seq) = 1 THEN seq[1]
    ELSE seq[1] \o "|" \o JoinPipe(Tail(seq))

RECURSIVE CountPipes(_)
\* The number of `|` characters in a string
CountPipes(t) ==
    IF Len(t) = 0 THEN 0
    ELSE (IF SubSeq(t, 1, 1) = "|" THEN 1 ELSE 0) + CountPipes(SubSeq(t, 2, Len(t)))

\* key, txnid, amount, productinfo, firstname, email, udf1..udf5, five empty
\* reserved slots, salt
RequestPositions(cfg, p) ==
    <<cfg.merchantKey, p.txnid, p.amount, p.productinfo, p.firstname, p.email,
      Slot(p.udf1), Slot(p.udf2), Slot(p.udf3), Slot(p.udf4), Slot(p.udf5),
      "", "", "", "", "", cfg.merchantSalt>>

\* salt, status, five empty reserved slots, udf5..udf1, email, firstname,
\* productinfo, amount, txnid, key
ResponsePositions(cfg, p) ==
    <<cfg.merchantSalt, p.status, "", "", "", "", "",
      Slot(p.udf5), Slot(p.udf4), Slot(p.udf3), Slot(p.udf2), Slot(p.udf1),
      p.email, p.firstname, p.productinfo, p.amount, p.txnid, cfg.merchantKey>>

\* The text a digest of the model was computed over
HashInputOf(digest) == SubSeq(digest, 8, Len(digest) - 1)

\* No value of the params holds the separator
NoPipeIn(p, names) == \A k \in names : p[k] = Undef \/ CountPipes(p[k]) = 0

\* C38: the signRequest hash input is the sequence key, txnid, amount,
\* productinfo, firstname, email, udf1..udf5, five empty reserved slots, salt
\* joined by `|`, a missing udf standing as an empty string at its own
\* position, so that six pipes follow udf5 and the number of separators is
\* the same for every input; the verifyResponse input is salt, status, five
\* empty reserved slots, udf5..udf1, email, firstname, productinfo, amount,
\* txnid, key.
C38_Positional ==
    /\ hashed.op = "sign" =>
          /\ hashed.da = Sha512Hex(JoinPipe(RequestPositions(config, hashed.a)))
          /\ hashed.db = Sha512Hex(JoinPipe(RequestPositions(config, hashed.b)))
          /\ NoPipeIn(hashed.a, RequestFieldNames) => CountPipes(HashInputOf(hashed.da)) = 16
          /\ Slot(hashed.a.udf5) = ""
                => \E i \in 1..Len(HashInputOf(hashed.da)) :
                      SubSeq(HashInputOf(hashed.da), i, Len(HashInputOf(hashed.da)))
                          = "||||||" \o config.merchantSalt
    /\ (hashed.op = "verify" /\ ~hashed.threw) =>
          /\ hashed.valid <=>
                ToLowerCase(hashed.params.hash)
                    = Sha512Hex(JoinPipe(ResponsePositions(config, hashed.params)))
          /\ NoPipeIn(hashed.params, ResponseFieldNames)
                => CountPipes(JoinPipe(ResponsePositions(config, hashed.params))) = 17

\* A request signed with udf3 alone set: the value stands in the ninth
\* position and the digest is that of the positional sequence
C38_Witness ==
    /\ hashed.op = "sign"
    /\ hashed.a.udf3 = "x"
    /\ hashed.a.udf1 = Undef
    /\ hashed.b = BaseParams
    /\ hashed.da = Sha512Hex("K|TXN_1_0a1b2c3d|500.00|Order Payment|Jane|a@b.com|||x||||||||S")
    /\ hashed.da # hashed.db

\* ---------------------------------------------------------------------------
\* The gateway's transaction id

\* The session carries the answer of a successful status check
EverAuthorized == session.payuResponse.present

\* C39: in every reachable state a session whose status is authorized,
\* captured or refunded has a recorded gateway transaction id, and a session
\* that no successful status check has authorized has none.
C39_GatewayIdInvariant ==
    stored =>
        /\ session.status \in {"authorized", "captured", "refunded"}
              => Truthy(session.payuTransactionId)
        /\ ~EverAuthorized => session.payuTransactionId = Undef

====
